---- MODULE Spec2Model ----
(***************************************************************************)
(* DLNA-Tester: the compliance test suite (dlna_tester/tests.py) driving   *)
(* the protocol client (dlna_tester/tester.py) against a remote, possibly  *)
(* non-compliant media server.                                             *)
(*                                                                         *)
(* Conventions of the model                                                *)
(*  - None is the empty sequence <<>>, a present value x is <<x>>.         *)
(*  - Weights and scores are counted in quarters (0.25): every weight the  *)
(*    suite uses is a multiple of 0.5 and a WARN scores weight * 0.5, so   *)
(*    all sums are exact both here and in binary floating point.           *)
(*  - Strings the code only tests (substring, prefix, truthiness) are      *)
(*    enumerated values with the tests as predicates over them.            *)
(*  - The server is the environment: every answer it gives is an input     *)
(*    drawn with \E from a set of answers.                                 *)
(***************************************************************************)
EXTENDS Integers, Sequences, FiniteSets, TLC

\* ------------------------------------------------------------------------
\* Bounds of the model
\* ------------------------------------------------------------------------
\* longest result list the scoring functions are applied to in ScoreSpec
MaxResults == 3

\* answers of one run that may depart from the well-behaved server (Spec)
MaxDeviations == 2

\* largest item budget (max_items) of the traversal runs (TraverseSpec)
MaxBudget == 4

\* ------------------------------------------------------------------------
\* TestStatus, TestCategory, TestResult
\* ------------------------------------------------------------------------
TestStatus == {"PASS", "FAIL", "WARN", "SKIP"}

CONNECTIVITY == "Connectivity"
DEVICE_DESCRIPTION == "Device Description"
CONTENT_DIRECTORY == "Content Directory"
CONNECTION_MANAGER == "Connection Manager"
BROWSING == "Browsing"
METADATA == "Metadata"
MEDIA_RESOURCES == "Media Resources"
PROTOCOL_COMPLIANCE == "Protocol Compliance"

TestCategory ==
  {CONNECTIVITY, DEVICE_DESCRIPTION, CONTENT_DIRECTORY, CONNECTION_MANAGER,
   BROWSING, METADATA, MEDIA_RESOURCES, PROTOCOL_COMPLIANCE}

\* the weights the suite passes to _add_result, in quarters
W_HALF == 2
W_ONE == 4
W_ONE_HALF == 6
W_TWO == 8
Weights == {W_HALF, W_ONE, W_ONE_HALF, W_TWO}

\* TestResult(name, category, status, message, details, weight)
TestResult(name, category, status, message, details, weight) ==
  [name |-> name, category |-> category, status |-> status,
   message |-> message, details |-> details, weight |-> weight]

\* TestResult.score: PASS -> weight, WARN -> weight * 0.5, otherwise 0.0
ScoreWarnFull(r) ==
  IF r.status = "PASS" THEN r.weight
  ELSE IF r.status = "WARN" THEN r.weight
  ELSE 0

score(r) ==
  IF r.status = "PASS" THEN r.weight
  ELSE IF r.status = "WARN" THEN r.weight \div 2
  ELSE 0

RECURSIVE SumScore(_)
SumScore(rs) ==
  IF rs = <<>> THEN 0 ELSE score(Head(rs)) + SumScore(Tail(rs))

\* sum(r.weight for r in results if r.status != SKIP)
RECURSIVE SumWeightAll(_)
SumWeightAll(rs) ==
  IF rs = <<>> THEN 0 ELSE Head(rs).weight + SumWeightAll(Tail(rs))

RECURSIVE SumWeight(_)
SumWeight(rs) ==
  IF rs = <<>> THEN 0
  ELSE (IF Head(rs).status # "SKIP" THEN Head(rs).weight ELSE 0)
       + SumWeight(Tail(rs))

\* a percentage is kept exactly, as a fraction <<numerator, denominator>>
\* in lowest terms
RECURSIVE GCD(_, _)
GCD(a, b) == IF b = 0 THEN a ELSE GCD(b, a % b)

Fraction(n, d) == LET g == GCD(n, d) IN <<n \div g, d \div g>>

\* percentage >= k
PctGE(p, k) == p[1] >= k * p[2]

PctGT(p, k) == p[1] > k * p[2]

\* get_score: percentage = 0.0 if max_score == 0 else total / max * 100
score_percentage(rs) ==
  IF SumWeight(rs) = 0 THEN <<0, 1>>
  ELSE Fraction(SumScore(rs) * 100, SumWeight(rs))

\* get_score: the if / elif chain that determines the grade
GradeStrict(p) ==
  IF PctGT(p, 95) THEN "A+"
  ELSE IF PctGT(p, 90) THEN "A"
  ELSE IF PctGT(p, 85) THEN "B+"
  ELSE IF PctGT(p, 80) THEN "B"
  ELSE IF PctGT(p, 75) THEN "C+"
  ELSE IF PctGT(p, 70) THEN "C"
  ELSE IF PctGT(p, 60) THEN "D"
  ELSE "F"

grade_of(p) ==
  IF PctGE(p, 95) THEN "A+"
  ELSE IF PctGE(p, 90) THEN "A"
  ELSE IF PctGE(p, 85) THEN "B+"
  ELSE IF PctGE(p, 80) THEN "B"
  ELSE IF PctGE(p, 75) THEN "C+"
  ELSE IF PctGE(p, 70) THEN "C"
  ELSE IF PctGE(p, 60) THEN "D"
  ELSE "F"

\* get_score() -> (total_score, max_score, grade)
get_score(rs) ==
  [score |-> SumScore(rs), max_score |-> SumWeight(rs),
   grade |-> grade_of(score_percentage(rs))]

CountStatus(rs, s) == Cardinality({i \in 1..Len(rs) : rs[i].status = s})

\* get_summary: by_category, for each category that has a result the
\* number of its results of each status
ByCategoryNoSkip(rs) ==
  [c \in {rs[i].category : i \in 1..Len(rs)} |->
     [s \in TestStatus |->
        IF s = "SKIP" THEN 0
        ELSE Cardinality({i \in 1..Len(rs) : rs[i].category = c /\ rs[i].status = s})]]

by_category(rs) ==
  [c \in {rs[i].category : i \in 1..Len(rs)} |->
     [s \in TestStatus |->
        Cardinality({i \in 1..Len(rs) : rs[i].category = c /\ rs[i].status = s})]]

\* get_summary(): counts per status, score, max score, percentage, grade
get_summary(rs) ==
  LET sc == get_score(rs) IN
  [total |-> Len(rs),
   passed |-> CountStatus(rs, "PASS"),
   failed |-> CountStatus(rs, "FAIL"),
   warned |-> CountStatus(rs, "WARN"),
   skipped |-> CountStatus(rs, "SKIP"),
   score |-> sc.score,
   max_score |-> sc.max_score,
   percentage |-> IF sc.max_score > 0
                  THEN Fraction(sc.score * 100, sc.max_score)
                  ELSE <<0, 1>>,
   grade |-> sc.grade,
   by_category |-> by_category(rs)]

\* ------------------------------------------------------------------------
\* State
\* ------------------------------------------------------------------------
VARIABLES
  full_scan,               \* TestSuite.full_scan
  max_items,               \* TestSuite.max_items
  results,                 \* TestSuite.results
  browsed_items,           \* TestSuite._browsed_items
  device_info,             \* DLNATester.device_info (None or a DeviceInfo)
  device_description_url,  \* DLNATester._device_description_url
  content_directory,       \* DLNATester._content_directory
  connection_manager,      \* DLNATester._connection_manager
  pc,                      \* the position of the control flow
  stack,                   \* pending calls of _test_recursive_browse
  server,                  \* environment: the kind of server under test
  requests,                \* history: the requests sent to the server, in order
  deviations,              \* history: answers that departed from the nominal server
  last_extend,             \* history: items added by the latest extend of browsed_items
  seen,                    \* history: the answers to the Browse calls
  prev_results,            \* ScoreSpec: the result list before the change
  change,                  \* ScoreSpec: the change made to the result list
  futures,                 \* _test_concurrent_access: the futures of the executor
  fetched                  \* _test_concurrent_access: its local list results

vars ==
  <<full_scan, max_items, results, browsed_items, device_info,
    device_description_url, content_directory, connection_manager, pc, stack,
    server, requests, deviations, last_extend, seen, prev_results, change,
    futures, fetched>>

suite_vars == <<full_scan, max_items, browsed_items, stack, last_extend, seen>>

tester_vars ==
  <<device_info, device_description_url, content_directory, connection_manager>>

pool_vars == <<futures, fetched>>

None == <<>>

Some(x) == <<x>>

\* ------------------------------------------------------------------------
\* ScoreSpec: get_score and get_summary applied to arbitrary result lists
\* ------------------------------------------------------------------------
\* the results the scoring functions distinguish: a status and a weight
ScoredResults ==
  {TestResult("r", CONNECTIVITY, s, "", <<>>, w) : s \in TestStatus, w \in Weights}

ResultLists(n) == UNION {[1..k -> ScoredResults] : k \in 0..n}

NoChange == [kind |-> "none", index |-> 0]

ScoreInit ==
  /\ results \in ResultLists(MaxResults)
  /\ prev_results = results
  /\ change = NoChange
  /\ pc = "score"
  /\ full_scan = FALSE
  /\ max_items = 0
  /\ browsed_items = <<>>
  /\ device_info = None
  /\ device_description_url = None
  /\ content_directory = None
  /\ connection_manager = None
  /\ stack = <<>>
  /\ server = "none"
  /\ requests = <<>>
  /\ deviations = 0
  /\ last_extend = 0
  /\ seen = [root |-> None, offset |-> None]
  /\ futures = <<>>
  /\ fetched = <<>>

\* _add_result with status SKIP: one more result at the end of the list
AppendSkip ==
  /\ pc = "score"
  /\ change = NoChange
  /\ \E w \in Weights :
       results' = Append(results, TestResult("s", METADATA, "SKIP", "", <<>>, w))
  /\ prev_results' = results
  /\ change' = [kind |-> "append_skip", index |-> Len(results) + 1]
  /\ UNCHANGED <<pool_vars, suite_vars, tester_vars, pc, server, requests, deviations>>

\* the same list with one FAIL result turned into PASS or WARN
ChangeStatus ==
  /\ pc = "score"
  /\ change = NoChange
  /\ \E i \in 1..Len(results), s \in {"PASS", "WARN"} :
       /\ results[i].status = "FAIL"
       /\ results' = [results EXCEPT ![i].status = s]
       /\ change' = [kind |-> s, index |-> i]
  /\ prev_results' = results
  /\ UNCHANGED <<pool_vars, suite_vars, tester_vars, pc, server, requests, deviations>>

ScoreNext == AppendSkip \/ ChangeStatus

ScoreSpec == ScoreInit /\ [][ScoreNext]_vars

\* ------------------------------------------------------------------------
\* C6 - SKIP neutrality: appending a SKIP result of any weight leaves the
\* total score, the max score, the percentage and the grade unchanged.
\* ------------------------------------------------------------------------
C6_SkipNeutral ==
  change.kind = "append_skip" =>
    /\ get_score(results) = get_score(prev_results)
    /\ get_summary(results).score = get_summary(prev_results).score
    /\ get_summary(results).max_score = get_summary(prev_results).max_score
    /\ get_summary(results).percentage = get_summary(prev_results).percentage
    /\ get_summary(results).grade = get_summary(prev_results).grade

\* a SKIP of weight 2.0 was appended to a list that scores strictly between
\* 0 and its maximum
C6_Witness ==
  /\ change.kind = "append_skip"
  /\ results[Len(results)].status = "SKIP"
  /\ results[Len(results)].weight = W_TWO
  /\ SumScore(prev_results) > 0
  /\ SumScore(prev_results) < SumWeight(prev_results)

\* ------------------------------------------------------------------------
\* C7 - Score monotonicity: turning one FAIL into PASS raises the total by
\* exactly the result's weight, into WARN by exactly weight * 0.5; the max
\* score does not change; PASS counts weight, WARN weight * 0.5, FAIL and
\* SKIP count 0.
\* ------------------------------------------------------------------------
C7_Monotone ==
  /\ change.kind = "PASS" =>
       /\ SumScore(results) = SumScore(prev_results) + results[change.index].weight
       /\ SumScore(results) > SumScore(prev_results)
       /\ SumWeight(results) = SumWeight(prev_results)
  /\ change.kind = "WARN" =>
       /\ 2 * SumScore(results)
            = 2 * SumScore(prev_results) + results[change.index].weight
       /\ SumWeight(results) = SumWeight(prev_results)
  /\ \A i \in 1..Len(results) :
       /\ results[i].status = "PASS" => score(results[i]) = results[i].weight
       /\ results[i].status = "WARN" => 2 * score(results[i]) = results[i].weight
       /\ results[i].status \in {"FAIL", "SKIP"} => score(results[i]) = 0

\* a FAIL of weight 1.5 in the middle of a three-result list became WARN
C7_Witness ==
  /\ change.kind = "WARN"
  /\ change.index = 2
  /\ Len(results) = 3
  /\ results[2].weight = W_ONE_HALF
  /\ prev_results[2].status = "FAIL"

\* ------------------------------------------------------------------------
\* C8 - Grade boundaries: the grade is a function of percentage =
\* total / max * 100 with inclusive lower bounds 95 A+, 90 A, 85 B+, 80 B,
\* 75 C+, 70 C, 60 D, else F; a max score of 0 gives percentage 0 and grade
\* F; get_summary reports the percentage the grade was computed from.
\* ------------------------------------------------------------------------
InBand(p, lo, hi) == p[1] >= lo * p[2] /\ p[1] < hi * p[2]

C8_GradeBoundaries ==
  LET sc == get_score(results)
      sm == get_summary(results)
      p == sm.percentage
  IN /\ sm.grade = sc.grade
     /\ sc.max_score = 0 => p = <<0, 1>> /\ sc.grade = "F"
     /\ sc.max_score > 0 => p[1] * sc.max_score = 100 * sc.score * p[2]
     /\ (sc.grade = "A+") = (p[1] >= 95 * p[2])
     /\ (sc.grade = "A") = InBand(p, 90, 95)
     /\ (sc.grade = "B+") = InBand(p, 85, 90)
     /\ (sc.grade = "B") = InBand(p, 80, 85)
     /\ (sc.grade = "C+") = InBand(p, 75, 80)
     /\ (sc.grade = "C") = InBand(p, 70, 75)
     /\ (sc.grade = "D") = InBand(p, 60, 70)
     /\ (sc.grade = "F") = (p[1] < 60 * p[2])

\* PASS 2.0, PASS 2.0, WARN 1.0: 4.5 of 5.0 is exactly 90 percent, grade A
C8_Witness ==
  /\ get_summary(results).percentage = <<90, 1>>
  /\ get_score(results).grade = "A"
  /\ get_score(results).max_score = 20

\* ========================================================================
\* The protocol client: DLNATester (tester.py)
\* ========================================================================
BaseUrl == "http://host:port"

\* values a server can put where a URL is expected
AbsoluteUrls == {"http://host:port/media/1.mp3", "http://host:port/media/2.mp3"}

\* relative references urllib.parse.urljoin rejects with ValueError
MalformedUrls == {"//["}

\* _make_url(path): an absolute URL is passed through, anything else is
\* joined to base_url; urljoin raises ValueError on a malformed reference
make_url(path) ==
  IF path \in AbsoluteUrls THEN [raised |-> FALSE, url |-> <<path>>]
  ELSE IF path \in MalformedUrls THEN [raised |-> TRUE, url |-> <<>>]
  ELSE [raised |-> FALSE, url |-> <<BaseUrl, path>>]

\* one entry of the request history
Req(category, what, arg) == [category |-> category, what |-> what, arg |-> arg]

\* ---- discover_device_description ----------------------------------------
common_paths ==
  <<"/DeviceDescription.xml", "/description.xml", "/rootDesc.xml",
    "/device.xml", "/MediaServer.xml", "/dmr.xml", "/upnp/desc.xml",
    "/dlna/device.xml", "/">>

\* what the GET of one path can give: a transport error, a status other than
\* 200 without or with the marker in its body, a 200 body without the
\* marker, a 200 body with the marker:
\* "error", "not200", "marker404", "nomarker", "device"
GetRaises(a) == a = "error"

StatusCode(a) == IF a \in {"nomarker", "device"} THEN 200 ELSE 404

\* "urn:schemas-upnp-org:device" in content
HasDeviceMarker(a) == a \in {"device", "marker404"}

\* the loop over common_paths from index i on; ans[i] is the server's answer
\* for common_paths[i]; returns the URL and the number of paths probed
RECURSIVE DiscoverAnyOk(_, _)
DiscoverAnyOk(i, ans) ==
  IF i > Len(common_paths) THEN [url |-> None, probed |-> Len(common_paths)]
  ELSE IF ~GetRaises(ans[i]) /\ StatusCode(ans[i]) = 200
       THEN [url |-> Some(make_url(common_paths[i]).url), probed |-> i]
       ELSE DiscoverAnyOk(i + 1, ans)

RECURSIVE discover_from(_, _)
discover_from(i, ans) ==
  IF i > Len(common_paths) THEN [url |-> None, probed |-> Len(common_paths)]
  ELSE IF ~GetRaises(ans[i]) /\ StatusCode(ans[i]) = 200 /\ HasDeviceMarker(ans[i])
       THEN [url |-> Some(make_url(common_paths[i]).url), probed |-> i]
       ELSE discover_from(i + 1, ans)

discover_device_description(ans) == discover_from(1, ans)

\* the GET requests discover_device_description sends
DiscoveryRequests(category, probed) ==
  [i \in 1..probed |-> Req(category, "GET probe", common_paths[i])]

\* ---- fetch_device_description -------------------------------------------
CD_TYPE == "urn:schemas-upnp-org:service:ContentDirectory:1"
CM_TYPE == "urn:schemas-upnp-org:service:ConnectionManager:1"
MEDIA_SERVER == "urn:schemas-upnp-org:device:MediaServer:1"
MEDIA_RENDERER == "urn:schemas-upnp-org:device:MediaRenderer:1"

CD_TYPE_2 == "urn:schemas-upnp-org:service:ContentDirectory:2"
BOTH_TYPE == "urn:vendor:service:ContentDirectoryConnectionManager:1"
OTHER_TYPE == "urn:schemas-upnp-org:service:AVTransport:1"

\* "ContentDirectory" in s, "ConnectionManager" in s, "MediaServer" in s
ContainsContentDirectory(s) == s \in {CD_TYPE, CD_TYPE_2, BOTH_TYPE}
ContainsConnectionManager(s) == s \in {CM_TYPE, BOTH_TYPE}
ContainsMediaServer(s) == s = MEDIA_SERVER

\* s.startswith("uuid:")
StartsWithUuid(s) == s = "uuid:1234"

\* ServiceInfo: the fields the suite reads (service_id and event_sub_url are
\* stored and never read)
ServiceInfo(service_type, scpd_url, control_url) ==
  [service_type |-> service_type, scpd_url |-> scpd_url,
   control_url |-> control_url, actions |-> <<>>, state_variables |-> <<>>]

\* DeviceInfo as parsed from a description document: a missing required
\* element is the empty string
DeviceInfo(device_type, friendly_name, manufacturer, model_name, udn, services, icons) ==
  [device_type |-> device_type, friendly_name |-> friendly_name,
   manufacturer |-> manufacturer, model_name |-> model_name, udn |-> udn,
   services |-> services, icons |-> icons]

\* "Cache important services": the loop over the parsed services, the last
\* matching service wins
RECURSIVE CacheFirstWins(_, _)
CacheFirstWins(services, cached) ==
  IF services = <<>> THEN cached
  ELSE LET svc == Head(services) IN
       CacheFirstWins(Tail(services),
         IF ContainsContentDirectory(svc.service_type)
         THEN (IF cached.cd = <<>> THEN [cached EXCEPT !.cd = <<svc>>] ELSE cached)
         ELSE IF ContainsConnectionManager(svc.service_type)
         THEN (IF cached.cm = <<>> THEN [cached EXCEPT !.cm = <<svc>>] ELSE cached)
         ELSE cached)

RECURSIVE cache_services(_, _)
cache_services(services, cached) ==
  IF services = <<>> THEN cached
  ELSE LET svc == Head(services) IN
       cache_services(Tail(services),
         IF ContainsContentDirectory(svc.service_type)
         THEN [cached EXCEPT !.cd = Some(svc)]
         ELSE IF ContainsConnectionManager(svc.service_type)
         THEN [cached EXCEPT !.cm = Some(svc)]
         ELSE cached)

\* answers to the GET of the description URL
GetFailures == {"error", "status", "garbage"}

NoDevice == DeviceInfo("", "", "", "", "", <<>>, 0)

DescriptionAnswer(kind, device) == [kind |-> kind, device |-> device]

\* fetch_device_description once the URL is known: None on a transport
\* error, a non-2xx status, unparseable XML or a missing device element
parse_device_description(answer) ==
  IF answer.kind = "ok" THEN Some(answer.device) ELSE None

\* ---- fetch_service_description ------------------------------------------
\* answer to the GET of the SCPD URL: kind is "ok" or one of GetFailures;
\* actions and state_variables are the names the document lists
ScpdAnswer(kind, actions, state_variables) ==
  [kind |-> kind, actions |-> actions, state_variables |-> state_variables]

\* returns (raised, ok, service): the URL is made outside the try block, the
\* parsed names are appended to the lists of the service passed in
fetch_service_description(service, answer) ==
  IF make_url(service.scpd_url).raised
  THEN [raised |-> TRUE, ok |-> FALSE, service |-> service]
  ELSE IF answer.kind # "ok"
  THEN [raised |-> FALSE, ok |-> FALSE, service |-> service]
  ELSE [raised |-> FALSE, ok |-> TRUE,
        service |-> [service EXCEPT
                       !.actions = @ \o answer.actions,
                       !.state_variables = @ \o answer.state_variables]]

\* ---- _soap_request -------------------------------------------------------
\* answer.kind = "fail": transport error, unparseable XML or no Body
\* element. answer.kind = "fault": a SOAP fault envelope sent with status
\* 500, on which raise_for_status raises.
\* answer.kind = "body": the Body element of a 2xx response.
\* returns (raised, body): the URL is made outside the try block
SoapFailures == {"fail", "fault"}

soap_request(control_url, answer) ==
  IF make_url(control_url).raised THEN [raised |-> TRUE, body |-> None]
  ELSE IF answer.kind \in SoapFailures THEN [raised |-> FALSE, body |-> None]
  ELSE [raised |-> FALSE, body |-> Some(answer)]

\* an element of a SOAP body as the typed wrappers read it: absent, present
\* with no text, or present with text: "absent", "empty", "text"

\* ---- get_search_capabilities / get_sort_capabilities --------------------
\* answer: [kind, elem, text]
CapsAnswer(kind, elem, text) == [kind |-> kind, elem |-> elem, text |-> text]

\* result.text if result is not None else ""
get_capabilities(cd, answer) ==
  IF cd = None THEN [raised |-> FALSE, value |-> None]
  ELSE LET r == soap_request(cd[1].control_url, answer) IN
       IF r.raised THEN [raised |-> TRUE, value |-> None]
       ELSE IF r.body = None THEN [raised |-> FALSE, value |-> None]
       ELSE IF answer.elem = "absent" THEN [raised |-> FALSE, value |-> Some("")]
       ELSE IF answer.elem = "empty" THEN [raised |-> FALSE, value |-> None]
       ELSE [raised |-> FALSE, value |-> Some(answer.text)]

get_search_capabilities(cd, answer) == get_capabilities(cd, answer)

get_sort_capabilities(cd, answer) == get_capabilities(cd, answer)

\* ---- integers on the wire -----------------------------------------------
\* the text of a numeric element: absent or empty, not a number, a number
Count(kind, value) == [kind |-> kind, value |-> value]

NoCount == Count("absent", 0)

NotANumber == Count("nan", 0)

Num(n) == Count("int", n)

\* ---- get_system_update_id -----------------------------------------------
\* answer: [kind, id] with id a Count
UpdateIdAnswer(kind, id) == [kind |-> kind, id |-> id]

\* int(result.text) if result is not None and result.text else None;
\* ValueError -> None
get_system_update_id(cd, answer) ==
  IF cd = None THEN [raised |-> FALSE, value |-> None]
  ELSE LET r == soap_request(cd[1].control_url, answer) IN
       IF r.raised THEN [raised |-> TRUE, value |-> None]
       ELSE IF r.body = None THEN [raised |-> FALSE, value |-> None]
       ELSE IF answer.id.kind = "int"
            THEN [raised |-> FALSE, value |-> Some(answer.id.value)]
            ELSE [raised |-> FALSE, value |-> None]

\* ---- get_protocol_info --------------------------------------------------
HTTP_GET_AUDIO == "http-get:*:audio/mpeg:*"
HTTP_GET_UPPER == "HTTP-GET:*:video/mp4:*"
RTSP_AUDIO == "rtsp-rtp-udp:*:audio/mpeg:*"

\* "http-get" in p.lower()
ContainsHttpGetLower(p) == p \in {HTTP_GET_AUDIO, HTTP_GET_UPPER}

\* answer: [kind, elem, protocols]: the Source element and the entries of
\* its comma-separated text
ProtocolInfoAnswer(kind, elem, protocols) ==
  [kind |-> kind, elem |-> elem, protocols |-> protocols]

\* returns the source part of (source, sink): None, or the entries of
\* source.split(",")
get_protocol_info(cm, answer) ==
  IF cm = None THEN [raised |-> FALSE, source |-> None]
  ELSE LET r == soap_request(cm[1].control_url, answer) IN
       IF r.raised THEN [raised |-> TRUE, source |-> None]
       ELSE IF r.body = None THEN [raised |-> FALSE, source |-> None]
       ELSE IF answer.elem = "text"
            THEN [raised |-> FALSE, source |-> Some(answer.protocols)]
            ELSE [raised |-> FALSE, source |-> None]

\* ---- DIDL-Lite ----------------------------------------------------------
\* a resource of an item: an attribute the element lacks and an attribute
\* that is the empty string are both "" (every read is a truthiness test)
Resource(url, protocol_info, size, duration, bitrate, sample_frequency, resolution) ==
  [url |-> url, protocol_info |-> protocol_info, size |-> size,
   duration |-> duration, bitrate |-> bitrate,
   sample_frequency |-> sample_frequency, resolution |-> resolution]

\* an element of a DIDL-Lite document, in document order: tag is
\* "container", "item" or anything else; restricted is the attribute's text
\* or "absent"; child_count is the childCount attribute as a Count
Element(tag, id, title, item_class, restricted, child_count, resources) ==
  [tag |-> tag, id |-> id, title |-> title, item_class |-> item_class,
   restricted |-> restricted, child_count |-> child_count,
   resources |-> resources]

\* _parse_didl_item(elem, is_container) -> MediaItem
ParseRestrictedUnlessZero(elem, is_container) ==
  [id |-> elem.id,
   title |-> elem.title,
   item_class |-> elem.item_class,
   restricted |-> elem.restricted # "0",
   resources |-> elem.resources,
   is_container |-> is_container,
   child_count |-> IF is_container /\ elem.child_count.kind = "int"
                   THEN Some(elem.child_count.value) ELSE None]

parse_didl_item(elem, is_container) ==
  [id |-> elem.id,
   title |-> elem.title,
   item_class |-> elem.item_class,
   restricted |-> (IF elem.restricted = "absent" THEN "1" ELSE elem.restricted) = "1",
   resources |-> elem.resources,
   is_container |-> is_container,
   child_count |-> IF is_container /\ elem.child_count.kind = "int"
                   THEN Some(elem.child_count.value) ELSE None]

ParseAll(elems, is_container) ==
  [i \in 1..Len(elems) |-> parse_didl_item(elems[i], is_container)]

IsContainerElem(e) == e.tag = "container"

IsItemElem(e) == e.tag = "item"

\* the text of a Result element: kind is "absent" (no element), "empty" (no
\* text), "garbage" (text that is no XML) or "didl" (a document)
ResultText(kind, doc) == [kind |-> kind, doc |-> doc]

\* titles whose character data holds '<', which the document carries as
\* "&lt;": a bare one, and one that reads as markup once unescaped
TITLE_LT == "AC<DC"
TITLE_MARKUP == "<item id='X'/>"

\* "&lt;" in didl_text
ContainsEscapedLt(doc) ==
  \E i \in 1..Len(doc) : doc[i].title \in {TITLE_LT, TITLE_MARKUP}

\* the element that TITLE_MARKUP turns into once unescaped: <item id='X'/>
\* in the default namespace of the document, a child of the title element
InjectedItem == Element("item", "X", "", "", "absent", NoCount, <<>>)

RECURSIVE UnescapedElements(_)
UnescapedElements(doc) ==
  IF doc = <<>> THEN <<>>
  ELSE (IF Head(doc).title = TITLE_MARKUP
        THEN <<[Head(doc) EXCEPT !.title = ""], InjectedItem>>
        ELSE <<Head(doc)>>)
       \o UnescapedElements(Tail(doc))

\* html.unescape(didl_text) as etree.fromstring reads it: a bare '<' in
\* character data is no XML; an unescaped tag is an element of its own and
\* leaves the title without text
unescape(doc) ==
  IF \E i \in 1..Len(doc) : doc[i].title = TITLE_LT
  THEN ResultText("garbage", <<>>)
  ELSE ResultText("didl", UnescapedElements(doc))

\* _parse_didl_lite: every container of the document, then every item
parse_didl_lite(result) ==
  LET text == IF result.kind = "didl" /\ ContainsEscapedLt(result.doc)
              THEN unescape(result.doc) ELSE result
  IN IF text.kind # "didl" THEN <<>>
     ELSE ParseAll(SelectSeq(text.doc, IsContainerElem), TRUE)
          \o ParseAll(SelectSeq(text.doc, IsItemElem), FALSE)

\* ---- browse -------------------------------------------------------------
\* answer: [kind, result, nr, tm]: the Result, NumberReturned and
\* TotalMatches elements of the body
BrowseAnswer(kind, result, nr, tm) ==
  [kind |-> kind, result |-> result, nr |-> nr, tm |-> tm]

BrowseResult(items, number_returned, total_matches) ==
  [items |-> items, number_returned |-> number_returned,
   total_matches |-> total_matches]

\* the try block around the two int() calls: one ValueError zeroes both
ParseCounts(nr, tm) ==
  IF nr.kind = "nan" \/ tm.kind = "nan" THEN <<0, 0>>
  ELSE <<IF nr.kind = "int" THEN nr.value ELSE 0,
         IF tm.kind = "int" THEN tm.value ELSE 0>>

BrowseNoneOnEmpty(cd, answer) ==
  IF cd = None THEN [raised |-> FALSE, value |-> None]
  ELSE LET r == soap_request(cd[1].control_url, answer) IN
       IF r.raised THEN [raised |-> TRUE, value |-> None]
       ELSE IF r.body = None THEN [raised |-> FALSE, value |-> None]
       ELSE IF answer.result.kind \in {"absent", "empty"}
            THEN [raised |-> FALSE, value |-> None]
            ELSE LET c == ParseCounts(answer.nr, answer.tm) IN
                 [raised |-> FALSE,
                  value |-> Some(BrowseResult(parse_didl_lite(answer.result), c[1], c[2]))]

\* browse(object_id, ...) -> (items, number_returned, total_matches) | None
browse(cd, answer) ==
  IF cd = None THEN [raised |-> FALSE, value |-> None]
  ELSE LET r == soap_request(cd[1].control_url, answer) IN
       IF r.raised THEN [raised |-> TRUE, value |-> None]
       ELSE IF r.body = None THEN [raised |-> FALSE, value |-> None]
       ELSE IF answer.result.kind \in {"absent", "empty"}
            THEN [raised |-> FALSE, value |-> Some(BrowseResult(<<>>, 0, 0))]
            ELSE LET c == ParseCounts(answer.nr, answer.tm) IN
                 [raised |-> FALSE,
                  value |-> Some(BrowseResult(parse_didl_lite(answer.result), c[1], c[2]))]

\* ========================================================================
\* The test suite: TestSuite (tests.py)
\* ========================================================================
\* _add_result with the default weight 1.0 and no numeric details
Result(name, category, status, message) ==
  TestResult(name, category, status, message, <<>>, W_ONE)

InSeq(x, s) == \E i \in 1..Len(s) : s[i] = x

\* the outcome of one category: the results it appends, the requests it
\* sends, whether an exception left it, and the client state it leaves
Outcome(rs, reqs, raised, url, device, cd, cm) ==
  [results |-> rs, requests |-> reqs, raised |-> raised, url |-> url,
   device |-> device, cd |-> cd, cm |-> cm]

\* ---- _run_connectivity_tests --------------------------------------------
\* answer to the GET of base_url: a transport error or a response
HttpAnswer(kind, status) == [kind |-> kind, status |-> status]

run_connectivity_tests(url, cd, cm, device, h, d) ==
  LET disc == discover_device_description(d)
      get == <<Req(CONNECTIVITY, "GET", BaseUrl)>>
  IN IF h.kind = "error"
     THEN Outcome(
            <<TestResult("HTTP Connection", CONNECTIVITY, "FAIL",
                         "Failed to connect", <<>>, W_TWO)>>,
            get, FALSE, url, device, cd, cm)
     ELSE Outcome(
            <<TestResult("HTTP Connection", CONNECTIVITY, "PASS",
                         "Server responded with status", <<h.status>>, W_TWO),
              IF disc.url # None
              THEN TestResult("Device Description Discovery", CONNECTIVITY, "PASS",
                              "Found device description", <<>>, W_TWO)
              ELSE TestResult("Device Description Discovery", CONNECTIVITY, "FAIL",
                              "Could not find device description XML", <<>>, W_TWO)>>,
            get \o DiscoveryRequests(CONNECTIVITY, disc.probed),
            FALSE, IF disc.url # None THEN disc.url ELSE url, device, cd, cm)

\* ---- _run_device_description_tests --------------------------------------
RequiredFieldNames ==
  <<"Required Field: friendlyName", "Required Field: manufacturer",
    "Required Field: modelName", "Required Field: UDN">>

RequiredFieldsSwapped(device) ==
  <<device.manufacturer, device.friendly_name, device.model_name, device.udn>>

RequiredFieldValues(device) ==
  <<device.friendly_name, device.manufacturer, device.model_name, device.udn>>

\* the results recorded for a parsed device description
device_results(device) ==
  LET has_content_dir ==
        \E i \in 1..Len(device.services) :
          ContainsContentDirectory(device.services[i].service_type)
      has_conn_mgr ==
        \E i \in 1..Len(device.services) :
          ContainsConnectionManager(device.services[i].service_type)
  IN <<IF ContainsMediaServer(device.device_type)
       THEN Result("Device Type", DEVICE_DESCRIPTION, "PASS", "Device type")
       ELSE Result("Device Type", DEVICE_DESCRIPTION, "WARN", "Non-standard device type")>>
     \o [i \in 1..4 |->
           IF RequiredFieldValues(device)[i] # ""
           THEN Result(RequiredFieldNames[i], DEVICE_DESCRIPTION, "PASS", "present")
           ELSE Result(RequiredFieldNames[i], DEVICE_DESCRIPTION, "FAIL",
                       "Missing required field")]
     \o <<IF StartsWithUuid(device.udn)
          THEN Result("UDN Format", DEVICE_DESCRIPTION, "PASS", "UDN follows uuid: format")
          ELSE Result("UDN Format", DEVICE_DESCRIPTION, "WARN",
                      "UDN does not follow uuid: format"),
          IF has_content_dir
          THEN TestResult("ContentDirectory Service", DEVICE_DESCRIPTION, "PASS",
                          "ContentDirectory service present", <<>>, W_TWO)
          ELSE TestResult("ContentDirectory Service", DEVICE_DESCRIPTION, "FAIL",
                          "ContentDirectory service missing (required for DLNA DMS)",
                          <<>>, W_TWO),
          IF has_conn_mgr
          THEN TestResult("ConnectionManager Service", DEVICE_DESCRIPTION, "PASS",
                          "ConnectionManager service present", <<>>, W_ONE_HALF)
          ELSE TestResult("ConnectionManager Service", DEVICE_DESCRIPTION, "WARN",
                          "ConnectionManager service missing (recommended)",
                          <<>>, W_ONE_HALF),
          IF device.icons > 0
          THEN TestResult("Device Icons", DEVICE_DESCRIPTION, "PASS",
                          "Device has icon(s)", <<device.icons>>, W_ONE)
          ELSE Result("Device Icons", DEVICE_DESCRIPTION, "WARN",
                      "No device icons defined (recommended for better UX)")>>

ParsingFailed ==
  TestResult("Device Description Parsing", DEVICE_DESCRIPTION, "FAIL",
             "Could not parse device description", <<>>, W_TWO)

\* fetch_device_description() (URL resolution, discovery when no URL is
\* known, GET, parse, service caching) and the checks on the parsed device;
\* d answers the discovery, a the GET of the description
run_device_description_tests(url, cd, cm, device, d, a) ==
  LET disc == IF url = None THEN discover_device_description(d)
              ELSE [url |-> url, probed |-> 0]
      probes == DiscoveryRequests(DEVICE_DESCRIPTION, disc.probed)
  IN IF disc.url = None
     THEN Outcome(<<ParsingFailed>>, probes, FALSE, url, device, cd, cm)
     ELSE LET parsed == parse_device_description(a)
              get == probes \o <<Req(DEVICE_DESCRIPTION, "GET description", "")>>
          IN IF parsed = None
             THEN Outcome(<<ParsingFailed>>, get, FALSE, disc.url, device, cd, cm)
             ELSE LET cached ==
                        cache_services(parsed[1].services, [cd |-> cd, cm |-> cm])
                  IN Outcome(device_results(parsed[1]), get, FALSE, disc.url,
                             parsed, cached.cd, cached.cm)

\* ---- _run_content_directory_tests ---------------------------------------
required_actions ==
  <<"Browse", "GetSearchCapabilities", "GetSortCapabilities", "GetSystemUpdateID">>

RequiredActionNames ==
  <<"Action: Browse", "Action: GetSearchCapabilities",
    "Action: GetSortCapabilities", "Action: GetSystemUpdateID">>

optional_actions == <<"Search", "CreateObject", "DestroyObject", "UpdateObject">>

OptionalActionNames ==
  <<"Optional Action: Search", "Optional Action: CreateObject",
    "Optional Action: DestroyObject", "Optional Action: UpdateObject">>

RequiredActionResults(actions) ==
  [i \in 1..Len(required_actions) |->
     IF InSeq(required_actions[i], actions)
     THEN Result(RequiredActionNames[i], CONTENT_DIRECTORY, "PASS", "action available")
     ELSE Result(RequiredActionNames[i], CONTENT_DIRECTORY, "FAIL",
                 "Required action not found")]

\* one PASS of weight 0.5 per optional action the SCPD lists, none otherwise
RECURSIVE OptionalActionResults(_, _)
OptionalActionResults(i, actions) ==
  IF i > Len(optional_actions) THEN <<>>
  ELSE (IF InSeq(optional_actions[i], actions)
        THEN <<TestResult(OptionalActionNames[i], CONTENT_DIRECTORY, "PASS",
                          "action available", <<>>, W_HALF)>>
        ELSE <<>>)
       \o OptionalActionResults(i + 1, actions)

CallResult(name, category, value, fail_message) ==
  IF value # None
  THEN Result(name, category, "PASS", "ok")
  ELSE Result(name, category, "FAIL", fail_message)

\* scpd answers the GET of the SCPD, a1, a2, a3 the three SOAP calls
run_content_directory_tests(url, cd, cm, device, scpd, a1, a2, a3) ==
  IF cd = None
  THEN Outcome(<<Result("Content Directory Available", CONTENT_DIRECTORY, "SKIP",
                        "ContentDirectory service not available")>>,
               <<>>, FALSE, url, device, cd, cm)
  ELSE LET f == fetch_service_description(cd[1], scpd) IN
       IF f.raised THEN Outcome(<<>>, <<>>, TRUE, url, device, cd, cm)
       ELSE
       LET svc == Some(f.service)
           r0 == <<IF f.ok
                   THEN TestResult("SCPD Retrieval", CONTENT_DIRECTORY, "PASS",
                                   "Retrieved SCPD", <<Len(f.service.actions)>>, W_ONE)
                   ELSE Result("SCPD Retrieval", CONTENT_DIRECTORY, "FAIL",
                               "Could not retrieve Service Control Protocol Description")>>
                 \o RequiredActionResults(f.service.actions)
                 \o OptionalActionResults(1, f.service.actions)
           q0 == <<Req(CONTENT_DIRECTORY, "GET scpd", cd[1].scpd_url)>>
           c1 == get_search_capabilities(svc, a1)
           c2 == get_sort_capabilities(svc, a2)
           c3 == get_system_update_id(svc, a3)
       IN IF c1.raised THEN Outcome(r0, q0, TRUE, url, device, svc, cm)
          ELSE IF c2.raised
          THEN Outcome(r0 \o <<CallResult("GetSearchCapabilities", CONTENT_DIRECTORY,
                                          c1.value, "GetSearchCapabilities action failed")>>,
                       q0 \o <<Req(CONTENT_DIRECTORY, "SOAP", "GetSearchCapabilities")>>,
                       TRUE, url, device, svc, cm)
          ELSE IF c3.raised
          THEN Outcome(r0 \o <<CallResult("GetSearchCapabilities", CONTENT_DIRECTORY,
                                          c1.value, "GetSearchCapabilities action failed"),
                               CallResult("GetSortCapabilities", CONTENT_DIRECTORY,
                                          c2.value, "GetSortCapabilities action failed")>>,
                       q0 \o <<Req(CONTENT_DIRECTORY, "SOAP", "GetSearchCapabilities"),
                               Req(CONTENT_DIRECTORY, "SOAP", "GetSortCapabilities")>>,
                       TRUE, url, device, svc, cm)
          ELSE Outcome(r0 \o <<CallResult("GetSearchCapabilities", CONTENT_DIRECTORY,
                                          c1.value, "GetSearchCapabilities action failed"),
                               CallResult("GetSortCapabilities", CONTENT_DIRECTORY,
                                          c2.value, "GetSortCapabilities action failed"),
                               IF c3.value # None
                               THEN TestResult("GetSystemUpdateID", CONTENT_DIRECTORY,
                                               "PASS", "System update ID", c3.value, W_ONE)
                               ELSE Result("GetSystemUpdateID", CONTENT_DIRECTORY, "FAIL",
                                           "GetSystemUpdateID action failed")>>,
                       q0 \o <<Req(CONTENT_DIRECTORY, "SOAP", "GetSearchCapabilities"),
                               Req(CONTENT_DIRECTORY, "SOAP", "GetSortCapabilities"),
                               Req(CONTENT_DIRECTORY, "SOAP", "GetSystemUpdateID")>>,
                       FALSE, url, device, svc, cm)

\* ---- _run_connection_manager_tests --------------------------------------
run_connection_manager_tests(url, cd, cm, device, scpd, a) ==
  IF cm = None
  THEN Outcome(<<Result("Connection Manager Available", CONNECTION_MANAGER, "SKIP",
                        "ConnectionManager service not available")>>,
               <<>>, FALSE, url, device, cd, cm)
  ELSE LET f == fetch_service_description(cm[1], scpd) IN
       IF f.raised THEN Outcome(<<>>, <<>>, TRUE, url, device, cd, cm)
       ELSE
       LET svc == Some(f.service)
           r0 == <<IF f.ok
                   THEN TestResult("CM SCPD Retrieval", CONNECTION_MANAGER, "PASS",
                                   "Retrieved SCPD", <<Len(f.service.actions)>>, W_ONE)
                   ELSE Result("CM SCPD Retrieval", CONNECTION_MANAGER, "FAIL",
                               "Could not retrieve ConnectionManager SCPD")>>
           q0 == <<Req(CONNECTION_MANAGER, "GET scpd", cm[1].scpd_url)>>
           pi == get_protocol_info(svc, a)
           q1 == q0 \o <<Req(CONNECTION_MANAGER, "SOAP", "GetProtocolInfo")>>
       IN IF pi.raised THEN Outcome(r0, q0, TRUE, url, device, cd, svc)
          ELSE IF pi.source = None
          THEN Outcome(r0 \o <<Result("GetProtocolInfo", CONNECTION_MANAGER, "FAIL",
                                      "GetProtocolInfo action failed")>>,
                       q1, FALSE, url, device, cd, svc)
          ELSE LET protocols == pi.source[1]
                   has_http == \E i \in 1..Len(protocols) :
                                 ContainsHttpGetLower(protocols[i])
               IN Outcome(
                    r0 \o <<TestResult("GetProtocolInfo", CONNECTION_MANAGER, "PASS",
                                       "Source protocols defined",
                                       <<Len(protocols)>>, W_ONE),
                            IF has_http
                            THEN Result("HTTP Streaming Protocol", CONNECTION_MANAGER,
                                        "PASS", "http-get protocol supported")
                            ELSE Result("HTTP Streaming Protocol", CONNECTION_MANAGER,
                                        "WARN", "http-get protocol not advertised")>>,
                    q1, FALSE, url, device, cd, svc)

\* ---- _run_browsing_tests and _test_recursive_browse ---------------------
\* self._max_depth = 10 if full_scan else 3
FullDepthAlways(fs) == 10

max_depth(fs) == IF fs THEN 10 ELSE 3

Containers(items) == SelectSeq(items, LAMBDA i : i.is_container)

MediaOnly(items) == SelectSeq(items, LAMBDA i : ~i.is_container)

\* A frame of the traversal: the containers still to be handed to
\* _test_recursive_browse at one level, and the depth of those calls. In
\* full-scan mode a frame is a for loop (with its budget check and break),
\* in sample mode the single call on the first container.
Frame(todo, depth) == [todo |-> todo, depth |-> depth]

DropHead(st) == <<[Head(st) EXCEPT !.todo = Tail(@)]>> \o Tail(st)

\* Runs the control flow up to the next Browse call: leaves finished loops,
\* breaks the loops whose budget check fails, returns from the calls whose
\* depth or budget check fails. The head of the result, if any, is the call
\* that browses next.
RECURSIVE UnwindNoBudget(_, _, _, _)
UnwindNoBudget(st, len, fs, max) ==
  IF st = <<>> THEN <<>>
  ELSE IF Head(st).todo = <<>> THEN UnwindNoBudget(Tail(st), len, fs, max)
  ELSE IF Head(st).depth > max_depth(fs)
       THEN UnwindNoBudget(DropHead(st), len, fs, max)
  ELSE st

RECURSIVE UnwindBudgetAtRoot(_, _, _, _)
UnwindBudgetAtRoot(st, len, fs, max) ==
  IF st = <<>> THEN <<>>
  ELSE IF Head(st).todo = <<>> THEN UnwindBudgetAtRoot(Tail(st), len, fs, max)
  ELSE IF fs /\ Head(st).depth = 1 /\ len >= max
       THEN UnwindBudgetAtRoot(Tail(st), len, fs, max)
  ELSE IF Head(st).depth > max_depth(fs)
       THEN UnwindBudgetAtRoot(DropHead(st), len, fs, max)
  ELSE IF Head(st).depth = 1 /\ len >= max
       THEN UnwindBudgetAtRoot(DropHead(st), len, fs, max)
  ELSE st

RECURSIVE Unwind(_, _, _, _)
Unwind(st, len, fs, max) ==
  IF st = <<>> THEN <<>>
  ELSE IF Head(st).todo = <<>> THEN Unwind(Tail(st), len, fs, max)
  ELSE IF fs /\ len >= max THEN Unwind(Tail(st), len, fs, max)
  ELSE IF Head(st).depth > max_depth(fs) THEN Unwind(DropHead(st), len, fs, max)
  ELSE IF len >= max THEN Unwind(DropHead(st), len, fs, max)
  ELSE st

\* the frame pushed for the sub-containers of a browsed container
DescendAll(items, depth, fs) ==
  LET subs == Containers(items) IN
  IF subs # <<>> /\ depth < max_depth(fs) THEN <<Frame(subs, depth + 1)>> ELSE <<>>

Descend(items, depth, fs) ==
  LET subs == Containers(items) IN
  IF subs # <<>> /\ depth < max_depth(fs)
  THEN <<Frame(IF fs THEN subs ELSE <<subs[1]>>, depth + 1)>>
  ELSE <<>>

\* "Full Scan Complete", recorded when the loop over the root containers ends
FullScanComplete(items) ==
  TestResult("Full Scan Complete", BROWSING, "PASS", "Scanned items",
             <<Len(items), Len(Containers(items)), Len(MediaOnly(items))>>, W_ONE)

\* the outcome of a part of the browsing category: results, requests,
\* raised, the collected items, the traversal still to run, and the number
\* of items the last extend added
BrowseOutcome(rs, reqs, raised, items, st, added) ==
  [results |-> rs, requests |-> reqs, raised |-> raised, browsed |-> items,
   stack |-> st, added |-> added]

BrowseReq(site) == Req(BROWSING, "SOAP Browse", site)

\* the StartingIndex check: items is the root listing, off the value of
\* browse("0", "BrowseDirectChildren", "*", 1, 1)
StartingIndexLenient(items, off) ==
  IF off = None
  THEN Result("StartingIndex Offset", BROWSING, "FAIL",
              "Browse with StartingIndex > 0 failed")
  ELSE IF off[1].number_returned >= 1 /\ off[1].items # <<>>
  THEN Result("StartingIndex Offset", BROWSING, "PASS",
              "StartingIndex offset returns results")
  ELSE Result("StartingIndex Offset", BROWSING, "WARN",
              "StartingIndex offset returned no items")

starting_index_result(items, off) ==
  IF off = None
  THEN Result("StartingIndex Offset", BROWSING, "FAIL",
              "Browse with StartingIndex > 0 failed")
  ELSE IF off[1].number_returned >= 1 /\ off[1].items # <<>>
  THEN LET first_item_id == IF items # <<>> THEN Some(items[1].id) ELSE None
           offset_item_id == off[1].items[1].id
       IN IF /\ first_item_id # None
             /\ first_item_id[1] # ""
             /\ offset_item_id # ""
             /\ first_item_id[1] # offset_item_id
          THEN Result("StartingIndex Offset", BROWSING, "PASS",
                      "StartingIndex offset works correctly (returned different item)")
          ELSE IF first_item_id = Some(offset_item_id)
          THEN Result("StartingIndex Offset", BROWSING, "FAIL",
                      "StartingIndex offset ignored (returned same first item)")
          ELSE Result("StartingIndex Offset", BROWSING, "PASS",
                      "StartingIndex offset returns results")
  ELSE Result("StartingIndex Offset", BROWSING, "WARN",
              "StartingIndex offset returned no items")

\* the loop or call that starts the traversal from the root listing
RootFrames(items, fs) ==
  LET containers == Containers(items) IN
  IF containers = <<>> THEN <<>>
  ELSE <<Frame(IF fs THEN containers ELSE <<containers[1]>>, 1)>>

\* what ends _run_browsing_tests once no Browse call is left
TraversalEnd(fs, items, root_containers) ==
  IF fs /\ root_containers THEN <<FullScanComplete(items)>> ELSE <<>>

\* _run_browsing_tests up to the first Browse call of the traversal;
\* root, meta, page, off answer the four Browse calls on the root
run_browsing_tests(cd, browsed, fs, max, root, meta, page, off) ==
  IF cd = None
  THEN BrowseOutcome(<<Result("Browse Root", BROWSING, "SKIP",
                              "ContentDirectory not available")>>,
                     <<>>, FALSE, browsed, <<>>, 0)
  ELSE LET r == browse(cd, root) IN
  IF r.raised THEN BrowseOutcome(<<>>, <<>>, TRUE, browsed, <<>>, 0)
  ELSE IF r.value = None
  THEN BrowseOutcome(<<TestResult("Browse Root", BROWSING, "FAIL",
                                  "Browse action failed for root container",
                                  <<>>, W_TWO)>>,
                     <<BrowseReq("root")>>, FALSE, browsed, <<>>, 0)
  ELSE LET items == r.value[1].items
           total_matches == r.value[1].total_matches
           collected == browsed \o items
           m == browse(cd, meta)
           pg == browse(cd, page)
           o == browse(cd, off)
           st == Unwind(RootFrames(items, fs), Len(collected), fs, max)
       IN BrowseOutcome(
            <<TestResult("Browse Root", BROWSING, "PASS", "Root browse returned",
                         <<Len(items), r.value[1].number_returned, total_matches>>,
                         W_TWO),
              IF m.value # None
              THEN Result("Browse Metadata", BROWSING, "PASS",
                          "BrowseMetadata for root successful")
              ELSE Result("Browse Metadata", BROWSING, "FAIL",
                          "BrowseMetadata for root failed")>>
            \o (IF total_matches > 1
                THEN <<IF pg.value # None /\ pg.value[1].number_returned = 1
                       THEN Result("Pagination Support", BROWSING, "PASS",
                                   "Pagination (RequestedCount) works correctly")
                       ELSE Result("Pagination Support", BROWSING, "WARN",
                                   "Pagination may not work correctly")>>
                ELSE <<>>)
            \o (IF total_matches > 2
                THEN <<starting_index_result(items, o.value)>>
                ELSE <<>>)
            \o (IF Containers(items) = <<>>
                THEN <<Result("Container Navigation", BROWSING, "WARN",
                              "No containers found in root to test navigation")>>
                ELSE <<>>)
            \o (IF st = <<>> THEN TraversalEnd(fs, collected, Containers(items) # <<>>)
                ELSE <<>>),
            <<BrowseReq("root"), BrowseReq("metadata")>>
            \o (IF total_matches > 1 THEN <<BrowseReq("pagination")>> ELSE <<>>)
            \o (IF total_matches > 2 THEN <<BrowseReq("offset")>> ELSE <<>>),
            FALSE, collected, st, Len(items))

\* what _test_recursive_browse records when its Browse fails
FailedBrowseAlwaysRecorded(fs) ==
  <<Result("Container Navigation", BROWSING, "FAIL", "Failed to browse container")>>

failed_browse_results(fs) ==
  IF ~fs
  THEN <<Result("Container Navigation", BROWSING, "FAIL", "Failed to browse container")>>
  ELSE <<>>

\* _test_recursive_browse(container, depth) for the call at the head of the
\* stack, and the control flow up to the next Browse call; a answers the
\* Browse of the container
test_recursive_browse(cd, browsed, st, fs, max, a) ==
  LET container == Head(Head(st).todo)
      depth == Head(st).depth
      r == browse(cd, a)
      rest == DropHead(st)
  IN IF r.raised THEN BrowseOutcome(<<>>, <<>>, TRUE, browsed, st, 0)
     ELSE IF r.value = None
     THEN LET st1 == Unwind(rest, Len(browsed), fs, max) IN
          BrowseOutcome(
            failed_browse_results(fs)
            \o (IF st1 = <<>> THEN TraversalEnd(fs, browsed, TRUE) ELSE <<>>),
            <<BrowseReq("container")>>, FALSE, browsed, st1, 0)
     ELSE LET items == r.value[1].items
              collected == browsed \o items
              st1 == Unwind(Descend(items, depth, fs) \o rest, Len(collected), fs, max)
          IN BrowseOutcome(
               (IF depth = 1 /\ ~fs
                THEN <<Result("Container Navigation", BROWSING, "PASS",
                              "Successfully browsed container")>>
                ELSE <<>>)
               \o (IF st1 = <<>> THEN TraversalEnd(fs, collected, TRUE) ELSE <<>>),
               <<BrowseReq("container")>>, FALSE, collected, st1, Len(items))

\* ---- _run_metadata_tests ------------------------------------------------
\* titles: what the three tests of _test_unicode_handling see in them
TITLE_ASCII == "Track"
TITLE_UNICODE == "Caf\\u00e9"
TITLE_SPECIAL == "Rock & Roll"
TITLE_REPLACEMENT == "Caf\\ufffd"

\* any(ord(c) > 127 for c in title)
HasNonAscii(t) == t \in {TITLE_UNICODE, TITLE_REPLACEMENT}

\* any(c in title for c in ['<', '>', '&', '"', "'"])
HasXmlSpecial(t) == t \in {TITLE_SPECIAL, TITLE_LT, TITLE_MARKUP}

\* the replacement character U+FFFD in title
HasReplacementChar(t) == t = TITLE_REPLACEMENT

\* UPnP classes
CLASS_CONTAINER == "object.container"
CLASS_AUDIO == "object.item.audioItem.musicTrack"
CLASS_VIDEO == "object.item.videoItem"
CLASS_IMAGE == "object.item.imageItem.photo"
CLASS_BARE_AUDIO == "audioItem"

\* "audioItem" in c, "videoItem" in c, c.startswith("object.")
ContainsAudioItem(c) == c \in {CLASS_AUDIO, CLASS_BARE_AUDIO}
ContainsVideoItem(c) == c = CLASS_VIDEO
StartsWithObject(c) == c \in {CLASS_CONTAINER, CLASS_AUDIO, CLASS_VIDEO, CLASS_IMAGE}

\* protocolInfo strings of resources
PI_PLAIN == "http-get:*:audio/mpeg:*"
PI_SHORT == "http-get:audio/mpeg"
PI_DLNA == "http-get:*:audio/mpeg:DLNA.ORG_PN=MP3;DLNA.ORG_OP=01;DLNA.ORG_FLAGS=01700000000000000000000000000000"
PI_BAD_FLAGS == "http-get:*:audio/mpeg:DLNA.ORG_PN=MP3;DLNA.ORG_FLAGS=0170"
PI_NO_HEX == "http-get:*:audio/mpeg:DLNA.ORG_FLAGS=none"
PI_LONG_FLAGS == "http-get:*:audio/mpeg:DLNA.ORG_FLAGS=017000000000000000000000000000000"
PI_TRAILING == "http-get:*:audio/mpeg:DLNA.ORG_FLAGS=01700000000000000000000000000000zz"

\* len(pinfo.split(":")) >= 4
HasFourParts(p) ==
  p \in {PI_PLAIN, PI_DLNA, PI_BAD_FLAGS, PI_NO_HEX, PI_LONG_FLAGS, PI_TRAILING}

\* "DLNA.ORG_PN=" in parts[3], "DLNA.ORG_OP=" in parts[3],
\* "DLNA.ORG_FLAGS=" in parts[3]
HasDlnaPn(p) == p \in {PI_DLNA, PI_BAD_FLAGS}
HasDlnaOp(p) == p = PI_DLNA
HasDlnaFlags(p) ==
  p \in {PI_DLNA, PI_BAD_FLAGS, PI_NO_HEX, PI_LONG_FLAGS, PI_TRAILING}

\* the regular expression finds hexadecimal digits after DLNA.ORG_FLAGS=,
\* and they are not 32 in number: 4 of them, 33 of them; it finds none in
\* "none" and the first 32 in a value of 32 digits followed by "zz"
HasInvalidFlags(p) == p \in {PI_BAD_FLAGS, PI_LONG_FLAGS}

Number(s, P(_)) == Len(SelectSeq(s, P))

\* [r for i in items for r in i.resources]
RECURSIVE ResourcesOf(_)
ResourcesOf(items) ==
  IF items = <<>> THEN <<>>
  ELSE Head(items).resources \o ResourcesOf(Tail(items))

\* PASS when all have it, WARN when some do, none_status when none does
AllSomeNone(name, have, total, none_status) ==
  Result(name, METADATA,
         IF have = total THEN "PASS" ELSE IF have > 0 THEN "WARN" ELSE none_status,
         IF have = total THEN "all" ELSE IF have > 0 THEN "some missing" ELSE "none")

\* PASS when all have it, otherwise the given status
AllOrElse(name, have, total, else_status) ==
  Result(name, METADATA, IF have = total THEN "PASS" ELSE else_status,
         IF have = total THEN "all" ELSE "some missing")

test_unicode_handling(browsed) ==
  LET titled == SelectSeq(browsed, LAMBDA i : i.title # "")
      unicode_items ==
        Number(titled, LAMBDA i : HasNonAscii(i.title))
        + Number(titled, LAMBDA i : HasXmlSpecial(i.title))
      problematic_items == Number(titled, LAMBDA i : HasReplacementChar(i.title))
  IN IF problematic_items > 0
     THEN <<Result("Unicode Handling", METADATA, "WARN",
                   "items have encoding issues (replacement characters)")>>
     ELSE IF unicode_items > 0
     THEN <<Result("Unicode Handling", METADATA, "PASS",
                   "items with Unicode/special chars handled correctly")>>
     ELSE <<TestResult("Unicode Handling", METADATA, "PASS",
                       "No Unicode/special characters found (ASCII-only content)",
                       <<>>, W_HALF)>>

test_dlna_flags(media_items) ==
  LET protocol_infos ==
        SelectSeq(ResourcesOf(media_items), LAMBDA r : r.protocol_info # "")
      four == SelectSeq(protocol_infos, LAMBDA r : HasFourParts(r.protocol_info))
      has_dlna_pn == Number(four, LAMBDA r : HasDlnaPn(r.protocol_info))
      has_dlna_op == Number(four, LAMBDA r : HasDlnaOp(r.protocol_info))
      has_dlna_flags == Number(four, LAMBDA r : HasDlnaFlags(r.protocol_info))
      invalid_flags == Number(four, LAMBDA r : HasInvalidFlags(r.protocol_info))
  IN IF media_items = <<>> \/ protocol_infos = <<>> THEN <<>>
     ELSE <<IF has_dlna_pn > 0
            THEN Result("DLNA Profile Names", METADATA, "PASS",
                        "resources have DLNA.ORG_PN (profile name)")
            ELSE Result("DLNA Profile Names", METADATA, "WARN",
                        "No resources have DLNA.ORG_PN profile names")>>
          \o (IF has_dlna_op > 0
              THEN <<Result("DLNA Operations Parameter", METADATA, "PASS",
                            "resources have DLNA.ORG_OP (seek support flags)")>>
              ELSE <<>>)
          \o (IF has_dlna_flags > 0
              THEN <<IF invalid_flags > 0
                     THEN Result("DLNA Flags Format", METADATA, "WARN",
                                 "resources have malformed DLNA.ORG_FLAGS")
                     ELSE Result("DLNA Flags Format", METADATA, "PASS",
                                 "resources have valid DLNA.ORG_FLAGS (32 hex chars)")>>
              ELSE <<>>)

\* the checks on the resources of the media items, made when there are any
resource_results(media_items) ==
  LET all_resources == ResourcesOf(media_items)
      audio_video_items ==
        SelectSeq(media_items, LAMBDA i : ContainsAudioItem(i.item_class)
                                          \/ ContainsVideoItem(i.item_class))
      av_resources == ResourcesOf(audio_video_items)
      audio_items == SelectSeq(media_items, LAMBDA i : ContainsAudioItem(i.item_class))
      audio_resources == ResourcesOf(audio_items)
      video_items == SelectSeq(media_items, LAMBDA i : ContainsVideoItem(i.item_class))
      video_resources == ResourcesOf(video_items)
  IN IF all_resources = <<>> THEN <<>>
     ELSE <<AllOrElse("Resource protocolInfo",
                      Number(all_resources, LAMBDA r : r.protocol_info # ""),
                      Len(all_resources), "WARN")>>
          \o (IF audio_video_items # <<>>
              THEN <<AllSomeNone("Resource Duration",
                                 Number(av_resources, LAMBDA r : r.duration # ""),
                                 Len(av_resources), "FAIL")>>
              ELSE <<>>)
          \o <<AllSomeNone("Resource Size",
                           Number(all_resources, LAMBDA r : r.size # ""),
                           Len(all_resources), "WARN")>>
          \o (IF audio_items # <<>>
              THEN <<IF Number(audio_resources, LAMBDA r : r.bitrate # "") > 0
                        \/ Number(audio_resources, LAMBDA r : r.sample_frequency # "") > 0
                     THEN Result("Audio Metadata", METADATA, "PASS",
                                 "Audio resources have bitrate and/or sampleFrequency")
                     ELSE Result("Audio Metadata", METADATA, "WARN",
                                 "Audio resources missing bitrate and sampleFrequency metadata")>>
              ELSE <<>>)
          \o (IF video_items # <<>>
              THEN <<AllSomeNone("Video Resolution",
                                 Number(video_resources, LAMBDA r : r.resolution # ""),
                                 Len(video_resources), "WARN")>>
              ELSE <<>>)

run_metadata_tests(browsed) ==
  IF browsed = <<>>
  THEN <<Result("Metadata Availability", METADATA, "SKIP",
                "No items available for metadata testing")>>
  ELSE
  LET containers == Containers(browsed)
      media_items == MediaOnly(browsed)
      total == Len(browsed)
      classes == {browsed[i].item_class : i \in 1..total} \ {""}
      valid_classes == {c \in classes : StartsWithObject(c)}
  IN <<AllOrElse("Item IDs", Number(browsed, LAMBDA i : i.id # ""), total, "FAIL"),
       AllOrElse("Item Titles", Number(browsed, LAMBDA i : i.title # ""), total, "WARN"),
       AllOrElse("Item Classes", Number(browsed, LAMBDA i : i.item_class # ""),
                 total, "WARN")>>
     \o (IF containers # <<>>
         THEN <<AllOrElse("Container childCount",
                          Number(containers, LAMBDA c : c.child_count # None),
                          Len(containers), "WARN")>>
         ELSE <<>>)
     \o (IF media_items # <<>>
         THEN <<AllSomeNone("Media Resources",
                            Number(media_items, LAMBDA i : i.resources # <<>>),
                            Len(media_items), "FAIL")>>
              \o resource_results(media_items)
         ELSE <<>>)
     \o (IF valid_classes = classes /\ classes # {}
         THEN <<Result("UPnP Class Format", METADATA, "PASS",
                       "All classes follow object.* format")>>
         ELSE IF valid_classes # {}
         THEN <<Result("UPnP Class Format", METADATA, "WARN",
                       "Some classes don't follow object.* format")>>
         ELSE <<>>)
     \o test_unicode_handling(browsed)
     \o test_dlna_flags(media_items)

\* ---- _run_media_resource_tests ------------------------------------------
\* answers to a HEAD or GET of a resource or of the description URL:
\* "error", "200", "other"

\* s[:n]
Prefix(s, n) == SubSeq(s, 1, IF Len(s) < n THEN Len(s) ELSE n)

\* the URL of the first resource of each item that has a non-empty one
FirstUrls(items) ==
  LET withUrl == SelectSeq(items, LAMBDA i : i.resources[1].url # "")
  IN [k \in 1..Len(withUrl) |-> withUrl[k].resources[1].url]

\* index of the first URL _make_url raises on, 0 when there is none
RECURSIVE FirstMalformed(_, _)
FirstMalformed(urls, k) ==
  IF k > Len(urls) THEN 0
  ELSE IF make_url(urls[k]).raised THEN k
  ELSE FirstMalformed(urls, k + 1)

MediaOutcome(rs, reqs, raised) == [results |-> rs, requests |-> reqs, raised |-> raised]

Accessibility(accessible_count, total_tested) ==
  TestResult("Resource Accessibility", MEDIA_RESOURCES,
             IF accessible_count = total_tested THEN "PASS"
             ELSE IF accessible_count > 0 THEN "WARN" ELSE "FAIL",
             "tested resources are accessible",
             <<accessible_count, total_tested>>, W_ONE_HALF)

\* the URLs _test_concurrent_access requests at once
ConcurrentUrls(media_items) == Prefix(FirstUrls(Prefix(media_items, 10)), 5)

\* fetch_partial(url) -> (success, error); the elapsed time is left to
\* the clock. answer is the status of the response, or "error" when the
\* GET raises. An error text is held as a number: the status of
\* "Status <code>", 0 for the text of an exception
fetch_partial(answer) ==
  IF answer \in {"200", "206"} THEN [success |-> TRUE, error |-> None]
  ELSE IF answer = "404" THEN [success |-> FALSE, error |-> Some(404)]
  ELSE [success |-> FALSE, error |-> Some(0)]

\* errors = [r[2] for r in results if r[2]]
RECURSIVE Errors(_)
Errors(rs) ==
  IF rs = <<>> THEN <<>>
  ELSE Head(rs).error \o Errors(Tail(rs))

\* the analysis of the results of the concurrent requests, in the order
\* in which they completed; avg_time is the mean of the elapsed times
ConcurrentResultFirstWins(num_concurrent, rs, avg_time) ==
  TestResult("Concurrent Access", MEDIA_RESOURCES,
             IF rs[1].success THEN "PASS" ELSE "FAIL",
             "concurrent requests", <<num_concurrent, avg_time>>, W_ONE_HALF)

concurrent_access_result(num_concurrent, rs, avg_time) ==
  LET successful == Number(rs, LAMBDA r : r.success)
      failed == num_concurrent - successful
      errors == Errors(rs)
  IN IF successful = num_concurrent
     THEN TestResult("Concurrent Access", MEDIA_RESOURCES, "PASS",
                     "All concurrent requests succeeded",
                     <<num_concurrent, avg_time>>, W_ONE_HALF)
     ELSE IF successful > 0
     THEN TestResult("Concurrent Access", MEDIA_RESOURCES, "WARN",
                     "concurrent requests succeeded",
                     <<successful, failed>> \o Prefix(errors, 3), W_ONE_HALF)
     ELSE TestResult("Concurrent Access", MEDIA_RESOURCES, "FAIL",
                     "All concurrent requests failed",
                     Prefix(errors, 3), W_ONE_HALF)

ConcurrentSkip ==
  Result("Concurrent Access", MEDIA_RESOURCES, "SKIP",
         "Not enough resources available to test concurrency")

\* _test_concurrent_access with the requests completing in the order of
\* their submission: conc[k] tells whether request k succeeded
test_concurrent_access(media_items, conc) ==
  LET test_urls == FirstUrls(Prefix(media_items, 10))
      urls_to_test == Prefix(test_urls, 5)
      num_concurrent == Len(urls_to_test)
  IN IF FirstMalformed(test_urls, 1) # 0 THEN MediaOutcome(<<>>, <<>>, TRUE)
     ELSE IF Len(test_urls) < 2 THEN MediaOutcome(<<ConcurrentSkip>>, <<>>, FALSE)
     ELSE MediaOutcome(
            <<concurrent_access_result(
                num_concurrent,
                [k \in 1..num_concurrent |->
                   fetch_partial(IF conc[k] THEN "206" ELSE "404")],
                0)>>,
            [k \in 1..num_concurrent |->
               Req(MEDIA_RESOURCES, "GET range", urls_to_test[k])],
            FALSE)

\* the URLs check_resource_headers is called on
HeadUrls(browsed) ==
  FirstUrls(Prefix(SelectSeq(browsed, LAMBDA i : ~i.is_container /\ i.resources # <<>>), 5))

\* heads[k] answers the k-th HEAD, rng the ranged GET, conc the concurrent GETs
run_media_resource_tests(browsed, heads, rng, conc) ==
  LET media_items == SelectSeq(browsed, LAMBDA i : ~i.is_container /\ i.resources # <<>>)
      test_items == Prefix(media_items, 5)
      urls == FirstUrls(test_items)
      bad == FirstMalformed(urls, 1)
      total_tested == Len(urls)
      accessible_count == Cardinality({k \in 1..total_tested : heads[k] = "200"})
      headReqs == [k \in 1..total_tested |-> Req(MEDIA_RESOURCES, "HEAD", urls[k])]
      r1 == IF total_tested > 0
            THEN <<Accessibility(accessible_count, total_tested)>> ELSE <<>>
      first_url == test_items[1].resources[1].url
      r2 == IF first_url = "" THEN <<>>
            ELSE IF rng \in {"200", "206"}
            THEN <<Result("Range Request Support", MEDIA_RESOURCES, "PASS",
                          "Server supports partial content requests")>>
            ELSE <<Result("Range Request Support", MEDIA_RESOURCES, "WARN",
                          "Server may not support range requests (seeking might not work)")>>
      q2 == IF first_url = "" THEN <<>>
            ELSE <<Req(MEDIA_RESOURCES, "GET range", first_url)>>
      c == test_concurrent_access(media_items, conc)
  IN IF media_items = <<>>
     THEN MediaOutcome(<<Result("Resource Accessibility", MEDIA_RESOURCES, "SKIP",
                                "No media items with resources available for testing")>>,
                       <<>>, FALSE)
     ELSE IF bad # 0 THEN MediaOutcome(<<>>, Prefix(headReqs, bad - 1), TRUE)
     ELSE IF first_url # "" /\ make_url(first_url).raised
     THEN MediaOutcome(r1, headReqs, TRUE)
     ELSE MediaOutcome(r1 \o r2 \o c.results, headReqs \o q2 \o c.requests, c.raised)

\* ---- _run_protocol_compliance_tests -------------------------------------
\* answer to the Browse of an object that does not exist: kind "fail",
\* "fault" or "body", and whether the Body element has children
ProbeAnswer(kind, has_children) == [kind |-> kind, has_children |-> has_children]

\* head answers the HEAD of the description URL, ctype its GET, u1 and u2
\* the two GetSystemUpdateID calls
run_protocol_compliance_tests(url, cd, probe, head, ctype, u1, u2) ==
  LET body == IF cd = None THEN [raised |-> FALSE, body |-> None]
              ELSE soap_request(cd[1].control_url, probe)
      id1 == get_system_update_id(cd, u1)
      id2 == get_system_update_id(cd, u2)
      r1 == IF cd = None THEN <<>>
            ELSE <<Result("Error Handling", PROTOCOL_COMPLIANCE,
                          IF body.body # None THEN "PASS" ELSE "WARN",
                          IF body.body # None /\ probe.has_children
                          THEN "Server handles invalid requests gracefully"
                          ELSE "Server may not handle invalid requests gracefully")>>
      q1 == IF cd = None THEN <<>>
            ELSE <<Req(PROTOCOL_COMPLIANCE, "SOAP Browse", "invalid")>>
      r2 == IF url = None THEN <<>>
            ELSE <<IF head = "200"
                   THEN Result("HTTP HEAD Support", PROTOCOL_COMPLIANCE, "PASS",
                               "Server supports HTTP HEAD requests")
                   ELSE IF head = "other"
                   THEN Result("HTTP HEAD Support", PROTOCOL_COMPLIANCE, "WARN",
                               "HTTP HEAD returned status")
                   ELSE Result("HTTP HEAD Support", PROTOCOL_COMPLIANCE, "WARN",
                               "Server may not support HTTP HEAD requests")>>
                 \o (IF ctype = "xml"
                     THEN <<Result("XML Content-Type", PROTOCOL_COMPLIANCE, "PASS",
                                   "Correct Content-Type for XML")>>
                     ELSE IF ctype = "other"
                     THEN <<Result("XML Content-Type", PROTOCOL_COMPLIANCE, "WARN",
                                   "Non-standard Content-Type for XML")>>
                     ELSE <<>>)
      q2 == IF url = None THEN <<>>
            ELSE <<Req(PROTOCOL_COMPLIANCE, "HEAD", "description"),
                   Req(PROTOCOL_COMPLIANCE, "GET", "description")>>
      r3 == IF cd # None /\ id1.value # None /\ id2.value # None
            THEN <<IF id1.value = id2.value
                   THEN Result("SystemUpdateID Consistency", PROTOCOL_COMPLIANCE, "PASS",
                               "SystemUpdateID is consistent between requests")
                   ELSE Result("SystemUpdateID Consistency", PROTOCOL_COMPLIANCE, "WARN",
                               "SystemUpdateID changed between requests")>>
            ELSE <<>>
      q3 == IF cd = None THEN <<>>
            ELSE <<Req(PROTOCOL_COMPLIANCE, "SOAP", "GetSystemUpdateID"),
                   Req(PROTOCOL_COMPLIANCE, "SOAP", "GetSystemUpdateID")>>
  IN IF body.raised THEN MediaOutcome(<<>>, <<>>, TRUE)
     ELSE MediaOutcome(r1 \o r2 \o r3, q1 \o q2 \o q3, FALSE)

\* ========================================================================
\* The server under test (environment)
\* ========================================================================
\* A well-behaved media server, and the answers that depart from it.
CdService == ServiceInfo(CD_TYPE, "/cd.xml", "/cd/control")
CmService == ServiceInfo(CM_TYPE, "/cm.xml", "/cm/control")

NominalDevice ==
  DeviceInfo(MEDIA_SERVER, "Server", "Maker", "Model", "uuid:1234",
             <<CdService, CmService>>, 1)

\* elements of DIDL-Lite documents
AudioRes(url) == Resource(url, PI_DLNA, "1024", "0:03:00", "128000", "44100", "")

ContainerElem(id) ==
  Element("container", id, "Music", CLASS_CONTAINER, "1", Num(2), <<>>)

ItemElem(id, url) ==
  Element("item", id, TITLE_ASCII, CLASS_AUDIO, "1", NoCount, <<AudioRes(url)>>)

Music == ContainerElem("10")
Track1 == ItemElem("1", "http://host:port/media/1.mp3")
Track2 == ItemElem("2", "http://host:port/media/2.mp3")
NoIdTrack == ItemElem("", "http://host:port/media/1.mp3")
BadUrlTrack == ItemElem("3", "//[")
RootElem == Element("container", "0", "Root", CLASS_CONTAINER, "1", Num(3), <<>>)

Listing(doc, nr, tm) == BrowseAnswer("body", ResultText("didl", doc), nr, tm)

BrowseFailed == BrowseAnswer("fail", ResultText("absent", <<>>), NoCount, NoCount)

\* a listing that reports its own length
Exact(doc) == Listing(doc, Num(Len(doc)), Num(Len(doc)))

\* the answers of the well-behaved server
Nominal ==
  [http |-> HttpAnswer("ok", 200),
   discovery |-> [i \in 1..Len(common_paths) |-> IF i = 1 THEN "device" ELSE "not200"],
   description |-> DescriptionAnswer("ok", NominalDevice),
   cd_scpd |-> ScpdAnswer("ok", required_actions \o <<"Search">>, <<>>),
   search_caps |-> CapsAnswer("body", "text", "dc:title"),
   sort_caps |-> CapsAnswer("body", "text", "dc:title"),
   update_id |-> UpdateIdAnswer("body", Num(7)),
   cm_scpd |-> ScpdAnswer("ok", <<"GetProtocolInfo">>, <<>>),
   protocol_info |-> ProtocolInfoAnswer("body", "text", <<HTTP_GET_AUDIO>>),
   root |-> Exact(<<Music, Track1, Track2>>),
   meta |-> Exact(<<RootElem>>),
   page |-> Listing(<<Music>>, Num(1), Num(3)),
   offset |-> Listing(<<Track1>>, Num(1), Num(3)),
   container |-> Exact(<<Track1, Track2>>),
   head |-> "200",
   range |-> "206",
   concurrent |-> TRUE,
   probe |-> ProbeAnswer("fault", TRUE),
   desc_head |-> "200",
   content_type |-> "xml"]

\* the answers of a server that cannot be reached: every request ends in a
\* transport error
Down ==
  [http |-> HttpAnswer("error", 0),
   discovery |-> [i \in 1..Len(common_paths) |-> "error"],
   description |-> DescriptionAnswer("error", NoDevice),
   cd_scpd |-> ScpdAnswer("error", <<>>, <<>>),
   search_caps |-> CapsAnswer("fail", "absent", ""),
   sort_caps |-> CapsAnswer("fail", "absent", ""),
   update_id |-> UpdateIdAnswer("fail", NoCount),
   cm_scpd |-> ScpdAnswer("error", <<>>, <<>>),
   protocol_info |-> ProtocolInfoAnswer("fail", "absent", <<>>),
   root |-> BrowseFailed,
   meta |-> BrowseFailed,
   page |-> BrowseFailed,
   offset |-> BrowseFailed,
   container |-> BrowseFailed,
   head |-> "error",
   range |-> "error",
   concurrent |-> FALSE,
   probe |-> ProbeAnswer("fail", FALSE),
   desc_head |-> "error",
   content_type |-> "error"]

\* the device descriptions that depart from NominalDevice
DeviceVariants ==
  {DeviceInfo(MEDIA_RENDERER, "", "Maker", "Model", "1234", <<>>, 0),
   DeviceInfo(MEDIA_SERVER, "Server", "Maker", "Model", "uuid:1234", <<CdService>>, 1),
   DeviceInfo(MEDIA_SERVER, "Server", "Maker", "Model", "uuid:1234",
              <<CdService, ServiceInfo(CD_TYPE, "/cd2.xml", "/cd2/control"), CmService>>, 1),
   DeviceInfo(MEDIA_SERVER, "Server", "Maker", "Model", "uuid:1234",
              <<ServiceInfo(CD_TYPE, "/cd.xml", "//["), CmService>>, 1),
   DeviceInfo(MEDIA_SERVER, "Server", "Maker", "Model", "uuid:1234",
              <<ServiceInfo(CD_TYPE, "//[", "/cd/control"), CmService>>, 1),
   DeviceInfo(MEDIA_SERVER, "Server", "Maker", "Model", "uuid:1234",
              <<CdService, ServiceInfo(CM_TYPE, "/cm.xml", "//[")>>, 1)}

EmptyResult(nr, tm) == BrowseAnswer("body", ResultText("empty", <<>>), nr, tm)

\* server "faulty": the answers by which a server departs from Nominal
Departures ==
  [http |-> {HttpAnswer("error", 0), HttpAnswer("ok", 404)},
   discovery |->
     {[i \in 1..Len(common_paths) |-> "error"],
      [i \in 1..Len(common_paths) |-> IF i = 2 THEN "device" ELSE "error"],
      [i \in 1..Len(common_paths) |->
         IF i = Len(common_paths) THEN "device" ELSE "nomarker"]},
   description |->
     {DescriptionAnswer(k, NoDevice) : k \in GetFailures}
     \cup {DescriptionAnswer("ok", d) : d \in DeviceVariants},
   cd_scpd |-> {ScpdAnswer("error", <<>>, <<>>), ScpdAnswer("ok", <<"Browse">>, <<>>)},
   search_caps |-> {CapsAnswer("fail", "absent", ""), CapsAnswer("body", "absent", ""),
                    CapsAnswer("body", "empty", "")},
   sort_caps |-> {CapsAnswer("fail", "absent", "")},
   update_id |-> {UpdateIdAnswer("fail", NoCount), UpdateIdAnswer("body", NotANumber),
                  UpdateIdAnswer("body", Num(8))},
   cm_scpd |-> {ScpdAnswer("error", <<>>, <<>>)},
   protocol_info |->
     {ProtocolInfoAnswer("fail", "absent", <<>>),
      ProtocolInfoAnswer("body", "absent", <<>>),
      ProtocolInfoAnswer("body", "text", <<RTSP_AUDIO>>),
      ProtocolInfoAnswer("body", "text", <<HTTP_GET_UPPER>>)},
   root |-> {BrowseFailed, EmptyResult(Num(0), Num(0)), Exact(<<Track1, Track2>>),
             Exact(<<Music, BadUrlTrack, Track2>>)},
   meta |-> {BrowseFailed},
   page |-> {BrowseFailed, Listing(<<Music, Track1>>, Num(2), Num(3))},
   offset |-> {BrowseFailed, Listing(<<Music>>, Num(1), Num(3)),
               Listing(<<>>, Num(0), Num(3))},
   container |-> {BrowseFailed, Exact(<<Music>>), Exact(<<>>)},
   head |-> {"error", "other"},
   range |-> {"error"},
   concurrent |-> {FALSE},
   probe |-> {ProbeAnswer("fail", FALSE), ProbeAnswer("body", TRUE),
              ProbeAnswer("body", FALSE)},
   desc_head |-> {"error", "other"},
   content_type |-> {"other", "error"}]

\* server "root": any answer to the four Browse calls on the root container
RootListings ==
  {<<>>, <<Track1>>, <<Track1, Track2>>, <<Track1, Music>>,
   <<Track1, Track2, Music>>, <<Track1, Music, Track2>>, <<NoIdTrack, Track2>>}

RootAnswers ==
  [root |->
     {BrowseFailed}
     \cup {BrowseAnswer("body", ResultText(k, <<>>), c[1], c[2]) :
             k \in {"absent", "empty", "garbage"},
             c \in {<<Num(0), Num(0)>>, <<Num(2), Num(3)>>}}
     \cup UNION {{Listing(doc, c[1], c[2]) :
                     c \in {<<Num(Len(doc)), Num(Len(doc))>>, <<Num(Len(doc)), Num(3)>>,
                            <<Num(Len(doc)), NotANumber>>, <<Num(Len(doc)), NoCount>>,
                            <<NotANumber, Num(3)>>}} :
                  doc \in RootListings},
   meta |-> {Nominal.meta, BrowseFailed},
   page |-> {Nominal.page, BrowseFailed, Listing(<<Music, Track1>>, Num(2), Num(3))},
   offset |->
     {BrowseFailed, EmptyResult(Num(1), Num(3))}
     \cup {Listing(doc, nr, tm) :
             doc \in {<<>>, <<Track1>>, <<Track2>>, <<Music>>, <<NoIdTrack>>},
             nr \in {Num(1), Num(0), NoCount, NotANumber},
             tm \in {Num(3), NotANumber}}]

\* server "tree": any tree of containers, a Browse of a container answers
\* with any listing, the listing of an ancestor included
Music2 == ContainerElem("11")

TreeAnswers ==
  [root |-> {BrowseFailed, Exact(<<>>), Exact(<<Music>>), Exact(<<Music, Music2>>),
             Exact(<<Track1, Music, Music2>>)},
   container |->
     {BrowseFailed, EmptyResult(Num(0), Num(0))}
     \cup {Exact(doc) :
             doc \in {<<Music>>, <<Track1>>, <<Music, Music2>>, <<Music, Track1>>,
                      <<Track1, Track2>>}}]

\* server "cyclic": every container lists itself
CyclicAnswers == [root |-> {Exact(<<Music>>)}, container |-> {Exact(<<Music>>)}]

\* the answers the server can give to the request f
Answers(f) ==
  CASE server = "down" -> {Down[f]}
    [] server = "faulty" -> {Nominal[f]} \cup Departures[f]
    [] server = "root" /\ f \in DOMAIN RootAnswers -> RootAnswers[f]
    [] server = "tree" /\ f \in DOMAIN TreeAnswers -> TreeAnswers[f]
    [] server = "cyclic" /\ f \in DOMAIN CyclicAnswers -> CyclicAnswers[f]
    [] OTHER -> {Nominal[f]}

\* departures from Nominal in one answer, in a sequence of answers
Dev(a, f) == IF a = Nominal[f] THEN 0 ELSE 1

DevSeq(as, f) == Cardinality({k \in 1..Len(as) : as[k] # Nominal[f]})

\* a faulty server departs from Nominal at most MaxDeviations times in a run
Allowed(cost) == server = "faulty" => deviations + cost <= MaxDeviations

Charged(cost) == IF server = "faulty" THEN deviations + cost ELSE deviations

\* ========================================================================
\* The run: TestSuite.run_all_tests, one action per category and one per
\* Browse call of the traversal
\* ========================================================================
\* max_items: int = 1000
DEFAULT_MAX_ITEMS == 1000

\* TestSuite(tester, full_scan=fs, max_items=max) on a fresh DLNATester
Setup(kind, fs, max) ==
  /\ server = kind
  /\ full_scan = fs
  /\ max_items = max
  /\ results = <<>>
  /\ browsed_items = <<>>
  /\ device_info = None
  /\ device_description_url = None
  /\ content_directory = None
  /\ connection_manager = None
  /\ pc = "run_all_tests"
  /\ stack = <<>>
  /\ requests = <<>>
  /\ deviations = 0
  /\ last_extend = 0
  /\ seen = [root |-> None, offset |-> None, calls |-> <<>>]
  /\ futures = <<>>
  /\ fetched = <<>>
  /\ prev_results = <<>>
  /\ change = NoChange

score_vars == <<prev_results, change>>

config_vars == <<full_scan, max_items, server>>

\* what a category that only uses the client leaves behind
ApplyInFront(o, next, cost) ==
  /\ results' = o.results \o results
  /\ requests' = requests \o o.requests
  /\ device_description_url' = o.url
  /\ device_info' = o.device
  /\ content_directory' = o.cd
  /\ connection_manager' = o.cm
  /\ pc' = IF o.raised THEN "raised" ELSE next
  /\ deviations' = Charged(cost)
  /\ UNCHANGED <<pool_vars, config_vars, score_vars, seen, browsed_items, stack, last_extend>>

Apply(o, next, cost) ==
  /\ results' = results \o o.results
  /\ requests' = requests \o o.requests
  /\ device_description_url' = o.url
  /\ device_info' = o.device
  /\ content_directory' = o.cd
  /\ connection_manager' = o.cm
  /\ pc' = IF o.raised THEN "raised" ELSE next
  /\ deviations' = Charged(cost)
  /\ UNCHANGED <<pool_vars, config_vars, score_vars, seen, browsed_items, stack, last_extend>>

\* self.results = []
RunAllTests ==
  /\ pc = "run_all_tests"
  /\ results' = <<>>
  /\ pc' = "connectivity"
  /\ UNCHANGED <<pool_vars, config_vars, score_vars, seen, tester_vars, browsed_items, stack,
                 last_extend, requests, deviations>>

Connectivity ==
  /\ pc = "connectivity"
  /\ \E h \in Answers("http"), d \in Answers("discovery") :
       LET cost == Dev(h, "http") + Dev(d, "discovery") IN
       /\ Allowed(cost)
       /\ Apply(run_connectivity_tests(device_description_url, content_directory,
                                       connection_manager, device_info, h, d),
                "device_description", cost)

DeviceDescription ==
  /\ pc = "device_description"
  /\ \E d \in Answers("discovery"), a \in Answers("description") :
       LET cost == Dev(d, "discovery") + Dev(a, "description") IN
       /\ Allowed(cost)
       /\ Apply(run_device_description_tests(device_description_url, content_directory,
                                             connection_manager, device_info, d, a),
                "content_directory", cost)

ContentDirectory ==
  /\ pc = "content_directory"
  /\ \E scpd \in Answers("cd_scpd"), a1 \in Answers("search_caps"),
        a2 \in Answers("sort_caps"), a3 \in Answers("update_id") :
       LET cost == Dev(scpd, "cd_scpd") + Dev(a1, "search_caps")
                   + Dev(a2, "sort_caps") + Dev(a3, "update_id") IN
       /\ Allowed(cost)
       /\ Apply(run_content_directory_tests(device_description_url, content_directory,
                                            connection_manager, device_info,
                                            scpd, a1, a2, a3),
                "connection_manager", cost)

ConnectionManager ==
  /\ pc = "connection_manager"
  /\ \E scpd \in Answers("cm_scpd"), a \in Answers("protocol_info") :
       LET cost == Dev(scpd, "cm_scpd") + Dev(a, "protocol_info") IN
       /\ Allowed(cost)
       /\ Apply(run_connection_manager_tests(device_description_url, content_directory,
                                             connection_manager, device_info, scpd, a),
                "browsing", cost)

\* what a part of the browsing category leaves behind
ApplyBrowse(o, cost, answers) ==
  /\ results' = results \o o.results
  /\ requests' = requests \o o.requests
  /\ browsed_items' = o.browsed
  /\ stack' = o.stack
  /\ last_extend' = o.added
  /\ pc' = IF o.raised THEN "raised"
           ELSE IF o.stack # <<>> THEN "traversal" ELSE "metadata"
  /\ deviations' = Charged(cost)
  /\ seen' = answers
  /\ UNCHANGED <<pool_vars, config_vars, score_vars, tester_vars>>

\* the answers to the root and the offset Browse, when they were requested
Seen(o, root, off) ==
  [root |-> IF InSeq(BrowseReq("root"), o.requests) THEN Some(root) ELSE None,
   offset |-> IF InSeq(BrowseReq("offset"), o.requests) THEN Some(off) ELSE None,
   calls |-> <<>>]

\* one Browse of the traversal: the container browsed, the depth of the
\* call and the server's answer
Call(st, a) ==
  [id |-> Head(Head(st).todo).id, depth |-> Head(st).depth, answer |-> a]

\* the history after a call of _test_recursive_browse with outcome o
Logged(o, st, a) ==
  IF o.requests # <<>> THEN [seen EXCEPT !.calls = Append(@, Call(st, a))] ELSE seen

\* _run_browsing_tests up to the first Browse call of the traversal
Browsing ==
  /\ pc = "browsing"
  /\ \E root \in Answers("root"), meta \in Answers("meta"),
        page \in Answers("page"), off \in Answers("offset") :
       LET cost == Dev(root, "root") + Dev(meta, "meta") + Dev(page, "page")
                   + Dev(off, "offset") IN
       /\ Allowed(cost)
       /\ ApplyBrowse(run_browsing_tests(content_directory, browsed_items, full_scan,
                                         max_items, root, meta, page, off), cost,
                      Seen(run_browsing_tests(content_directory, browsed_items,
                                              full_scan, max_items, root, meta, page, off),
                           root, off))

\* one call of _test_recursive_browse that reaches its Browse
Traversal ==
  /\ pc = "traversal"
  /\ \E a \in Answers("container") :
       /\ Allowed(Dev(a, "container"))
       /\ ApplyBrowse(test_recursive_browse(content_directory, browsed_items, stack,
                                            full_scan, max_items, a),
                      Dev(a, "container"),
                      Logged(test_recursive_browse(content_directory, browsed_items,
                                                   stack, full_scan, max_items, a),
                             stack, a))

Metadata ==
  /\ pc = "metadata"
  /\ results' = results \o run_metadata_tests(browsed_items)
  /\ pc' = "media_resources"
  /\ UNCHANGED <<pool_vars, config_vars, score_vars, seen, tester_vars, browsed_items, stack,
                 last_extend, requests, deviations>>

\* what a category that changes no state but the results leaves behind
ApplyLate(o, next, cost) ==
  /\ results' = results \o o.results
  /\ requests' = requests \o o.requests
  /\ pc' = IF o.raised THEN "raised" ELSE next
  /\ deviations' = Charged(cost)
  /\ UNCHANGED <<pool_vars, config_vars, score_vars, seen, tester_vars, browsed_items, stack, last_extend>>

MediaResources ==
  /\ pc = "media_resources"
  /\ \E heads \in [1..Len(HeadUrls(browsed_items)) -> Answers("head")],
        rng \in Answers("range"),
        conc \in [1..Len(ConcurrentUrls(SelectSeq(browsed_items,
                     LAMBDA i : ~i.is_container /\ i.resources # <<>>)))
                  -> Answers("concurrent")] :
       LET cost == DevSeq(heads, "head") + Dev(rng, "range")
                   + DevSeq(conc, "concurrent") IN
       /\ Allowed(cost)
       /\ ApplyLate(run_media_resource_tests(browsed_items, heads, rng, conc),
                    "protocol_compliance", cost)

ProtocolCompliance ==
  /\ pc = "protocol_compliance"
  /\ \E probe \in Answers("probe"), head \in Answers("desc_head"),
        ctype \in Answers("content_type"),
        u1 \in Answers("update_id"), u2 \in Answers("update_id") :
       LET cost == Dev(probe, "probe") + Dev(head, "desc_head")
                   + Dev(ctype, "content_type") + Dev(u1, "update_id")
                   + Dev(u2, "update_id") IN
       /\ Allowed(cost)
       /\ ApplyLate(run_protocol_compliance_tests(device_description_url,
                                                  content_directory, probe, head,
                                                  ctype, u1, u2),
                    "done", cost)

Next ==
  \/ RunAllTests
  \/ Connectivity
  \/ DeviceDescription
  \/ ContentDirectory
  \/ ConnectionManager
  \/ Browsing
  \/ Traversal
  \/ Metadata
  \/ MediaResources
  \/ ProtocolCompliance

\* a run against a server that is down, or that departs from the
\* well-behaved server in at most MaxDeviations answers
Init == \E kind \in {"faulty", "down"}, fs \in BOOLEAN : Setup(kind, fs, DEFAULT_MAX_ITEMS)

Spec == Init /\ [][Next]_vars

\* a run in which the four Browse calls on the root are answered in any way
RootInit == \E fs \in BOOLEAN : Setup("root", fs, DEFAULT_MAX_ITEMS)

RootSpec == RootInit /\ [][Next]_vars

\* a run against any tree of containers, under a small item budget or the
\* default one
TraverseInit ==
  \E kind \in {"tree", "cyclic"}, fs \in BOOLEAN,
     max \in (0..MaxBudget) \cup {DEFAULT_MAX_ITEMS} :
    /\ (kind = "tree" /\ fs) => max <= MaxBudget
    /\ Setup(kind, fs, max)

TraverseSpec == TraverseInit /\ [][Next]_vars

\* a run that is fair to the suite's own steps
TraverseFairSpec == TraverseSpec /\ WF_vars(Next)

\* the Browse calls the traversal has made
TraversalCalls == Number(requests, LAMBDA r : r = BrowseReq("container"))

Finished == pc \in {"done", "raised"}

\* ------------------------------------------------------------------------
\* C1 - Traversal boundedness: in full-scan mode with max_items = N (a
\* budget N >= 0), whatever the server answers, the collection never holds
\* more than N items plus the items of one Browse response, the latest one.
\* ------------------------------------------------------------------------
C1_TraversalBounded ==
  full_scan => Len(browsed_items) <= max_items + last_extend

\* the budget of 3 was crossed by a response of 2 items to a Browse of the
\* traversal, and the scan then ended
C1_Witness ==
  /\ full_scan
  /\ max_items = 3
  /\ TraversalCalls >= 1
  /\ last_extend = 2
  /\ Len(browsed_items) = 4
  /\ pc = "metadata"

\* ------------------------------------------------------------------------
\* C2 - Traversal termination: against any server, one whose containers
\* list themselves or an ancestor included, the traversal makes finitely
\* many Browse calls in both modes: never more than 3 in sample mode, fewer
\* than max_items in full-scan mode, never deeper than the depth limit, and
\* the run comes to its end.
\* ------------------------------------------------------------------------
C2_CallsBounded ==
  /\ ~full_scan => TraversalCalls <= 3
  /\ TraversalCalls = 0 \/ TraversalCalls < max_items
  /\ Len(stack) <= max_depth(full_scan)
  /\ \A k \in 1..Len(stack) : stack[k].depth <= max_depth(full_scan)

C2_TraversalTerminates == []C2_CallsBounded /\ <>Finished

\* a full scan of a server whose container lists itself went down to the
\* depth limit of 10 and the run ended
C2_Witness ==
  /\ server = "cyclic"
  /\ full_scan
  /\ max_items = DEFAULT_MAX_ITEMS
  /\ TraversalCalls = 10
  /\ pc = "done"

\* the results with status st
WithStatus(rs, st) == SelectSeq(rs, LAMBDA r : r.status = st)

HttpConnectionFailed ==
  /\ results # <<>>
  /\ results[1].name = "HTTP Connection"
  /\ results[1].status = "FAIL"

\* ------------------------------------------------------------------------
\* C3 - Scenario A: against a server that cannot be reached, a full run
\* yields exactly one FAIL in the whole result list, 'HTTP Connection' of
\* weight 2.0; the grade is F and summary.failed >= 1.
\* ------------------------------------------------------------------------
C3_UnreachableOneFail ==
  (server = "down" /\ pc = "done") =>
    /\ WithStatus(results, "FAIL")
         = <<TestResult("HTTP Connection", CONNECTIVITY, "FAIL",
                        "Failed to connect", <<>>, W_TWO)>>
    /\ get_summary(results).grade = "F"
    /\ get_summary(results).failed >= 1

\* ------------------------------------------------------------------------
\* C4 - Once 'HTTP Connection' FAIL is recorded, no later category sends a
\* request to the server or records a result of a probe.
\* ------------------------------------------------------------------------
C4_HttpFailureFatal ==
  HttpConnectionFailed =>
    /\ \A k \in 1..Len(requests) : requests[k].category = CONNECTIVITY
    /\ \A k \in 1..Len(results) :
         results[k].category = CONNECTIVITY \/ results[k].status = "SKIP"

\* ------------------------------------------------------------------------
\* C5 - Failure containment: whatever the server answers, no client
\* operation raises, and run_all_tests runs through every category to its
\* end.
\* ------------------------------------------------------------------------
C5_NeverRaises == pc # "raised"

\* the value browse returned for the root listing and for the offset Browse
RootValue == browse(content_directory, seen.root[1]).value

OffsetValue == browse(content_directory, seen.offset[1]).value

OffsetResults == SelectSeq(results, LAMBDA r : r.name = "StartingIndex Offset")

\* the root Browse returned total_matches > 2
OffsetTested ==
  /\ seen.root # None
  /\ RootValue # None
  /\ RootValue[1].total_matches > 2

\* the offset Browse returned the item the root listing starts with
SameFirstItem ==
  /\ OffsetValue # None
  /\ OffsetValue[1].items # <<>>
  /\ RootValue[1].items # <<>>
  /\ OffsetValue[1].items[1].id = RootValue[1].items[1].id

C10_EmptyResultIsNotFailure ==
  /\ \A a \in RootAnswers.root \cup TreeAnswers.container :
       /\ browse(None, a).value = None
       /\ (browse(Some(CdService), a).value = None) <=> (a.kind = "fail")
       /\ (a.kind = "body" /\ a.result.kind = "empty")
            => browse(Some(CdService), a).value = Some(BrowseResult(<<>>, 0, 0))
  /\ (seen.root # None /\ seen.root[1].kind = "body"
      /\ seen.root[1].result.kind = "empty") =>
       /\ \E k \in 1..Len(results) :
            /\ results[k].name = "Browse Root"
            /\ results[k].status = "PASS"
            /\ results[k].details = <<0, 0, 0>>
       /\ browsed_items = <<>>
       /\ TraversalCalls = 0
       /\ \A k \in 1..Len(results) :
            (results[k].category = BROWSING /\ results[k].status = "FAIL")
              => results[k].name = "Browse Metadata"

\* the root Browse answered with an empty Result element next to
\* NumberReturned = 2 and TotalMatches = 3, and the run ended
C10_Witness ==
  /\ seen.root = Some(EmptyResult(Num(2), Num(3)))
  /\ \E k \in 1..Len(results) :
       results[k].name = "Browse Root" /\ results[k].status = "PASS"
  /\ pc = "done"

\* ========================================================================
\* UnitSpec: single operations of the client and of the suite, applied to
\* inputs drawn from bounded sets
\* ========================================================================
\* the longest DIDL-Lite document
MaxDocLen == 4

ContainerIds == {"C1", "C2", "C3"}

ItemIds == {"I1", "I2", "I3"}

\* values of the restricted attribute
RestrictedValues == {"absent", "1", "0", "true", ""}

DidlTitles == {TITLE_ASCII, TITLE_LT, TITLE_MARKUP}

DidlElement(id, restricted, title) ==
  IF id \in ContainerIds
  THEN Element("container", id, title, CLASS_CONTAINER, restricted, NoCount, <<>>)
  ELSE Element("item", id, title, CLASS_AUDIO, restricted, NoCount, <<>>)

\* the sequences of at most n pairwise distinct elements of S
DistinctSeqs(S, n) ==
  {q \in UNION {[1..k -> S] : k \in 0..n} :
     \A i, j \in 1..Len(q) : i # j => q[i] # q[j]}

\* documents of containers and items in any order; the first element varies
\* in its restricted attribute, the last one in its title
DidlDocuments ==
  {[i \in 1..Len(ids) |->
      DidlElement(ids[i],
                  IF i = 1 THEN r ELSE "absent",
                  IF i = Len(ids) THEN t ELSE TITLE_ASCII)] :
     ids \in DistinctSeqs(ContainerIds \cup ItemIds, MaxDocLen),
     r \in RestrictedValues, t \in DidlTitles}

\* the longest document of items with resources
MaxFlagItems == 2

ProtocolInfos ==
  {"", PI_PLAIN, PI_SHORT, PI_DLNA, PI_BAD_FLAGS, PI_NO_HEX, PI_LONG_FLAGS,
   PI_TRAILING}

FlagItem(p) ==
  Element("item", "I1", TITLE_ASCII, CLASS_AUDIO, "1", NoCount,
          <<Resource("http://host:port/media/1.mp3", p, "1024", "0:03:00",
                     "128000", "44100", "")>>)

\* documents of items with one resource each, of any protocolInfo
FlagDocuments ==
  UNION {[1..k -> {FlagItem(p) : p \in ProtocolInfos}] : k \in 1..MaxFlagItems}

\* documents of items of any class, the empty one and one without the
\* object. prefix included
MaxClassItems == 3

ClassItem(c) == Element("item", "I1", TITLE_ASCII, c, "1", NoCount, <<>>)

UpnpClasses == {"", CLASS_AUDIO, CLASS_VIDEO, CLASS_BARE_AUDIO}

ClassDocuments ==
  UNION {[1..k -> {ClassItem(c) : c \in UpnpClasses}] : k \in 1..MaxClassItems}

DidlTexts ==
  {ResultText("didl", doc) : doc \in DidlDocuments \cup FlagDocuments \cup ClassDocuments}
    \cup {ResultText("garbage", <<>>)}

\* a fresh suite at position at on a client that knows the description URL
\* url; the input of the operation is kept in seen
UnitSetup(at, url, cd, input) ==
  /\ pc = at
  /\ seen = input
  /\ server = "none"
  /\ full_scan = FALSE
  /\ max_items = DEFAULT_MAX_ITEMS
  /\ results = <<>>
  /\ browsed_items = <<>>
  /\ device_info = None
  /\ device_description_url = url
  /\ content_directory = cd
  /\ connection_manager = None
  /\ stack = <<>>
  /\ requests = <<>>
  /\ deviations = 0
  /\ last_extend = 0
  /\ prev_results = <<>>
  /\ change = NoChange
  /\ futures = <<>>
  /\ fetched = <<>>

\* the client about to parse the text of a Result element
DidlInit ==
  \E text \in DidlTexts :
    UnitSetup("parse_didl", None, None,
              [root |-> None, offset |-> None, didl_text |-> text])

\* items = self._parse_didl_lite(result_elem.text), the items collected
ParseDidl ==
  /\ pc = "parse_didl"
  /\ browsed_items' = parse_didl_lite(seen.didl_text)
  /\ pc' = "metadata"
  /\ UNCHANGED <<pool_vars, full_scan, max_items, results, tester_vars, stack, server,
                 requests, deviations, last_extend, seen, score_vars>>

\* device descriptions: each required element present or missing, a UDN
\* with and without the uuid: prefix, the two services in every combination
UnitDevices ==
  {DeviceInfo(t, f, m, n, u, svcs, icons) :
     t \in {MEDIA_SERVER, MEDIA_RENDERER}, f \in {"", "Server"},
     m \in {"", "Maker"}, n \in {"", "Model"}, u \in {"", "1234", "uuid:1234"},
     svcs \in {<<>>, <<CdService>>, <<CmService>>, <<CdService, CmService>>},
     icons \in {0, 1}}

DescriptionAnswers ==
  {DescriptionAnswer("ok", d) : d \in UnitDevices}
    \cup {DescriptionAnswer(k, NoDevice) : k \in GetFailures}

DescriptionUrl == Some(make_url(common_paths[1]).url)

\* the suite about to run the Device Description category on a client that
\* has discovered the description URL
DescriptionInit ==
  \E a \in DescriptionAnswers :
    UnitSetup("describe_device", DescriptionUrl, None,
              [root |-> None, offset |-> None, description |-> a])

\* self._run_device_description_tests()
DescribeDevice ==
  /\ pc = "describe_device"
  /\ Apply(run_device_description_tests(device_description_url, content_directory,
                                        connection_manager, device_info, <<>>,
                                        seen.description),
           "described", 0)

\* answers to the Browse of an object that does not exist: a transport
\* error, a SOAP fault with status 500, a Body with and without children
ProbeAnswers ==
  {ProbeAnswer("fail", FALSE), ProbeAnswer("fault", TRUE),
   ProbeAnswer("body", TRUE), ProbeAnswer("body", FALSE)}

\* the suite about to run the Protocol Compliance category on a client that
\* has cached the ContentDirectory service
ProbeInit ==
  \E probe \in ProbeAnswers :
    UnitSetup("probe_error_handling", DescriptionUrl, Some(CdService),
              [root |-> None, offset |-> None, probe |-> probe])

\* self._run_protocol_compliance_tests()
ProbeErrorHandling ==
  /\ pc = "probe_error_handling"
  /\ \E head \in Answers("desc_head"), ctype \in Answers("content_type"),
        u1 \in Answers("update_id"), u2 \in Answers("update_id") :
       ApplyLate(run_protocol_compliance_tests(device_description_url,
                                               content_directory, seen.probe,
                                               head, ctype, u1, u2),
                 "probed", 0)

\* the answers of a server to the GET of each path of common_paths: 404
\* but for at most MaxAnswered paths, which answer in any way
MaxAnswered == 3

PathAnswerKinds == {"error", "marker404", "nomarker", "device"}

DiscoveryAnswers ==
  {ans \in [1..Len(common_paths) -> PathAnswerKinds \cup {"not200"}] :
     Cardinality({i \in 1..Len(common_paths) : ans[i] # "not200"}) <= MaxAnswered}

DiscoverInit ==
  \E ans \in DiscoveryAnswers :
    UnitSetup("discover", None, None, [discovery |-> ans, returned |-> None])

\* url = tester.discover_device_description()
Discover ==
  /\ pc = "discover"
  /\ LET disc == discover_device_description(seen.discovery) IN
       /\ device_description_url' =
            IF disc.url # None THEN disc.url ELSE device_description_url
       /\ requests' = requests \o DiscoveryRequests(CONNECTIVITY, disc.probed)
       /\ seen' = [seen EXCEPT !.returned = Some(disc.url)]
  /\ pc' = "discovered"
  /\ UNCHANGED <<pool_vars, config_vars, score_vars, results, browsed_items, stack,
                 last_extend, deviations, device_info, content_directory,
                 connection_manager>>

\* the service lists a description can carry: up to MaxServices services
\* in any order, two ContentDirectory services, two ConnectionManager
\* services, a service whose type names both, a service of another type
MaxServices == 3

ServiceChoices ==
  {CdService, ServiceInfo(CD_TYPE_2, "/cd2.xml", "/cd2/control"),
   CmService, ServiceInfo(CM_TYPE, "/cm2.xml", "/cm2/control"),
   ServiceInfo(BOTH_TYPE, "/both.xml", "/both/control"),
   ServiceInfo(OTHER_TYPE, "/avt.xml", "/avt/control")}

ServiceLists == UNION {[1..n -> ServiceChoices] : n \in 0..MaxServices}

\* the suite about to run the Device Description category on a device
\* that advertises the services svcs
ServicesInit ==
  \E svcs \in ServiceLists :
    UnitSetup("describe_device", DescriptionUrl, None,
              [root |-> None, offset |-> None,
               description |->
                 DescriptionAnswer("ok", [NominalDevice EXCEPT !.services = svcs])])

UnitInit == DidlInit \/ DescriptionInit \/ ProbeInit \/ DiscoverInit \/ ServicesInit

UnitNext == ParseDidl \/ Metadata \/ DescribeDevice \/ ProbeErrorHandling \/ Discover

\* the text of seen.didl_text has been parsed
Parsed == pc \in {"metadata", "media_resources"}

UnitSpec == UnitInit /\ [][UnitNext]_vars

\* the elements of a document that are containers, then those that are items
ContainersThenItems(doc) ==
  SelectSeq(doc, IsContainerElem) \o SelectSeq(doc, IsItemElem)

\* ------------------------------------------------------------------------
\* C11 - DIDL ordering law: for every DIDL-Lite document the parser returns
\* all container elements in document order, then all item elements in
\* document order; the length of the result is the number of containers
\* plus the number of items; text that is no XML gives the empty list.
\* ------------------------------------------------------------------------
C11_DidlOrderingLaw ==
  Parsed =>
    LET text == seen.didl_text
        expected == ContainersThenItems(text.doc)
    IN /\ text.kind = "garbage" => browsed_items = <<>>
       /\ text.kind = "didl" =>
            /\ Len(browsed_items) = Len(expected)
            /\ \A i \in 1..Len(expected) :
                 /\ browsed_items[i].id = expected[i].id
                 /\ browsed_items[i].is_container = IsContainerElem(expected[i])

\* ------------------------------------------------------------------------
\* C12 - Restricted default: a parsed container or item has restricted =
\* true when the attribute is absent or equals "1", and restricted = false
\* when it equals "0" and for every other value of the attribute.
\* ------------------------------------------------------------------------
C12_RestrictedDefault ==
  Parsed =>
    \A i \in 1..Len(browsed_items), k \in 1..Len(seen.didl_text.doc) :
      LET e == seen.didl_text.doc[k] IN
      e.id = browsed_items[i].id =>
        /\ e.restricted \in {"absent", "1"} => browsed_items[i].restricted
        /\ e.restricted \notin {"absent", "1"} => ~browsed_items[i].restricted

\* I1 with restricted="true" and C1 without the attribute were parsed: the
\* container is restricted, the item is not
C12_Witness ==
  /\ Parsed
  /\ Len(browsed_items) = 2
  /\ browsed_items[1].id = "C1" /\ browsed_items[1].restricted
  /\ browsed_items[2].id = "I1" /\ ~browsed_items[2].restricted
  /\ seen.didl_text.doc[1].id = "I1"
  /\ seen.didl_text.doc[1].restricted = "true"

\* <<name, status, weight>> of every result, in order
Verdicts(rs) == [i \in 1..Len(rs) |-> <<rs[i].name, rs[i].status, rs[i].weight>>]

\* the description of scenario B, any of the three names possibly missing:
\* UDN uuid:1234, one ContentDirectory service, no ConnectionManager, no
\* icons
ScenarioB(d) ==
  /\ d.udn = "uuid:1234"
  /\ d.services = <<CdService>>
  /\ d.icons = 0

\* ------------------------------------------------------------------------
\* C13 - Scenario B: for a description with UDN 'uuid:1234', one
\* ContentDirectory service, no ConnectionManager and no icons the Device
\* Description category records exactly 'Device Type' (PASS iff deviceType
\* contains 'MediaServer', else WARN), the four 'Required Field' results
\* (PASS when the field is present, FAIL when it is missing), 'UDN Format'
\* PASS, 'ContentDirectory Service' PASS of weight 2.0, 'ConnectionManager
\* Service' WARN of weight 1.5 and 'Device Icons' WARN.
\* ------------------------------------------------------------------------
C13_ScenarioB ==
  (pc = "described" /\ seen.description.kind = "ok"
   /\ ScenarioB(seen.description.device)) =>
    LET d == seen.description.device
        field(v) == IF v = "" THEN "FAIL" ELSE "PASS"
    IN /\ Verdicts(results) =
            <<<<"Device Type",
                IF d.device_type = MEDIA_SERVER THEN "PASS" ELSE "WARN", W_ONE>>,
              <<"Required Field: friendlyName", field(d.friendly_name), W_ONE>>,
              <<"Required Field: manufacturer", field(d.manufacturer), W_ONE>>,
              <<"Required Field: modelName", field(d.model_name), W_ONE>>,
              <<"Required Field: UDN", "PASS", W_ONE>>,
              <<"UDN Format", "PASS", W_ONE>>,
              <<"ContentDirectory Service", "PASS", W_TWO>>,
              <<"ConnectionManager Service", "WARN", W_ONE_HALF>>,
              <<"Device Icons", "WARN", W_ONE>>>>
       /\ \A i \in 1..Len(results) : results[i].category = DEVICE_DESCRIPTION

\* the description of scenario B with every name present, from a
\* MediaServer
C13_Witness ==
  /\ pc = "described"
  /\ seen.description
       = DescriptionAnswer("ok", DeviceInfo(MEDIA_SERVER, "Server", "Maker", "Model",
                                            "uuid:1234", <<CdService>>, 0))
  /\ Len(results) = 9
  /\ results[8].status = "WARN"

\* the 4th field of a protocolInfo holds a DLNA.ORG_FLAGS= token
CarriesFlagsToken(p) ==
  p \in {PI_DLNA, PI_BAD_FLAGS, PI_NO_HEX, PI_LONG_FLAGS, PI_TRAILING}

\* the value of the token is exactly 32 hexadecimal characters
WellFormedFlags(p) == p = PI_DLNA

FlagsFormatResults == SelectSeq(results, LAMBDA r : r.name = "DLNA Flags Format")

\* ------------------------------------------------------------------------
\* C14 - DLNA flags validity: when some resource's protocolInfo carries a
\* DLNA.ORG_FLAGS= token in its 4th field, 'DLNA Flags Format' is PASS only
\* if every such token's value is exactly 32 hexadecimal characters; any
\* other value (too short, too long, with other characters) makes it WARN.
\* ------------------------------------------------------------------------
C14_FlagsValidity ==
  pc = "media_resources" =>
    LET infos == {r.protocol_info : r \in
                    {ResourcesOf(MediaOnly(browsed_items))[k] :
                       k \in 1..Len(ResourcesOf(MediaOnly(browsed_items)))}}
        tokens == {p \in infos : CarriesFlagsToken(p)}
    IN tokens # {} =>
         /\ Len(FlagsFormatResults) = 1
         /\ FlagsFormatResults[1].status
              = IF \A p \in tokens : WellFormedFlags(p) THEN "PASS" ELSE "WARN"

ErrorHandlingResults == SelectSeq(results, LAMBDA r : r.name = "Error Handling")

\* ------------------------------------------------------------------------
\* C15 - Error Handling probe: the Browse of an object that does not exist
\* is recorded as PASS whenever the server returned a SOAP body, a SOAP
\* fault response included, and as WARN only when the request failed at
\* transport level.
\* ------------------------------------------------------------------------
C15_FaultIsHandled ==
  pc = "probed" =>
    /\ Len(ErrorHandlingResults) = 1
    /\ seen.probe.kind \in {"body", "fault"}
         => ErrorHandlingResults[1].status = "PASS"
    /\ seen.probe.kind = "fail" => ErrorHandlingResults[1].status = "WARN"

\* ------------------------------------------------------------------------
\* The Browse calls of the traversal, from their history
\* ------------------------------------------------------------------------
\* the items a Browse answered by a yields, None when the Browse fails
Listed(a) ==
  LET r == browse(content_directory, a) IN
  IF r.raised \/ r.value = None THEN None ELSE Some(r.value[1].items)

RootFailed == seen.root # None /\ Listed(seen.root[1]) = None

RootListed == seen.root # None /\ Listed(seen.root[1]) # None

TraversalOver == seen.root # None /\ pc \notin {"browsing", "traversal", "raised"}

FailedCalls == SelectSeq(seen.calls, LAMBDA c : Listed(c.answer) = None)

Named(rs, name) == SelectSeq(rs, LAMBDA r : r.name = name)

\* how many times the container id is listed by the items
Occurrences(id, items) == Number(Containers(items), LAMBDA i : i.id = id)

\* the items of all the responses to the calls
RECURSIVE Responses(_)
Responses(calls) ==
  IF calls = <<>> THEN <<>>
  ELSE Listed(Head(calls).answer)[1] \o Responses(Tail(calls))

\* how many times the responses one level up list the container id
Offered(id, depth) ==
  IF depth = 1 THEN Occurrences(id, Listed(seen.root[1])[1])
  ELSE Occurrences(id, Responses(SelectSeq(seen.calls,
         LAMBDA c : c.depth = depth - 1 /\ Listed(c.answer) # None)))

BrowsedAt(id, depth) ==
  Number(seen.calls, LAMBDA c : c.id = id /\ c.depth = depth)

TreeIds == {"10", "11"}

\* every container of every response down to the depth limit was browsed,
\* as many times as it was listed
EveryContainerBrowsed ==
  \A id \in TreeIds, depth \in 1..10 : BrowsedAt(id, depth) = Offered(id, depth)

OnlyListedBrowsed ==
  /\ \A k \in 1..Len(seen.calls) : seen.calls[k].id \in TreeIds
  /\ \A id \in TreeIds, depth \in 1..10 : BrowsedAt(id, depth) <= Offered(id, depth)

BudgetLeft == Len(browsed_items) < max_items

ContainerNavigationFail ==
  Result("Container Navigation", BROWSING, "FAIL", "Failed to browse container")

\* ------------------------------------------------------------------------
\* C16 - Browse-failure policy of the traversal: a failed root Browse
\* records 'Browse Root' FAIL of weight 2.0 and nothing is traversed; in
\* full-scan mode a failed Browse of a container records no result, the
\* siblings and the later containers are still browsed while the budget
\* lasts, and 'Full Scan Complete' is still recorded; in sample mode a
\* failed Browse of a container records a 'Container Navigation' FAIL.
\* ------------------------------------------------------------------------
C16_FailedRoot ==
  RootFailed =>
    /\ Len(Named(results, "Browse Root")) = 1
    /\ Named(results, "Browse Root")[1].status = "FAIL"
    /\ Named(results, "Browse Root")[1].weight = W_TWO
    /\ seen.calls = <<>>
    /\ TraversalCalls = 0
    /\ Named(results, "Container Navigation") = <<>>
    /\ Named(results, "Full Scan Complete") = <<>>

C16_FailedContainer ==
  /\ full_scan => WithStatus(Named(results, "Container Navigation"), "FAIL") = <<>>
  /\ (full_scan /\ RootListed /\ TraversalOver
         /\ Containers(Listed(seen.root[1])[1]) # <<>>) =>
       /\ Len(Named(results, "Full Scan Complete")) = 1
       /\ BudgetLeft => EveryContainerBrowsed
  /\ ~full_scan =>
       Len(WithStatus(Named(results, "Container Navigation"), "FAIL")) = Len(FailedCalls)

\* what a failed Browse of the traversal adds to the results
C16_FailedStep ==
  (/\ pc = "traversal"
   /\ Len(seen'.calls) = Len(seen.calls) + 1
   /\ Listed(seen'.calls[Len(seen'.calls)].answer) = None) =>
    IF full_scan
    THEN \/ results' = results
         \/ /\ pc' # "traversal"
            /\ results' = Append(results, FullScanComplete(browsed_items))
    ELSE results' = Append(results, ContainerNavigationFail)

C16_BrowseFailurePolicy ==
  [](C16_FailedRoot /\ C16_FailedContainer) /\ [][C16_FailedStep]_vars

\* a full scan in which the Browse of the first root container failed, the
\* second root container was browsed all the same, and the scan ended
\* within its budget
C16_Witness ==
  /\ full_scan
  /\ TraversalOver
  /\ BudgetLeft
  /\ Len(seen.calls) = 2
  /\ Listed(seen.calls[1].answer) = None
  /\ seen.calls[1].depth = 1
  /\ seen.calls[2].depth = 1
  /\ Listed(seen.calls[2].answer) # None
  /\ Len(Named(results, "Full Scan Complete")) = 1

\* ------------------------------------------------------------------------
\* C17 - Traversal modes: in sample mode the traversal browses at most one
\* container per level, the first container of the previous response, and
\* none more than 3 levels below the root; in full-scan mode it browses
\* every container of every response while the budget lasts, and none more
\* than 10 levels below the root.
\* ------------------------------------------------------------------------
\* the response the k-th call of a sample run takes its container from
PreviousResponse(k) ==
  IF k = 1 THEN Listed(seen.root[1]) ELSE Listed(seen.calls[k - 1].answer)

C17_TraversalModes ==
  /\ seen.calls # <<>> => RootListed /\ OnlyListedBrowsed
  /\ \A k \in 1..Len(seen.calls) :
       seen.calls[k].depth \in 1..(IF full_scan THEN 10 ELSE 3)
  /\ ~full_scan =>
       /\ Len(seen.calls) <= 3
       /\ \A k \in 1..Len(seen.calls) :
            /\ seen.calls[k].depth = k
            /\ PreviousResponse(k) # None
            /\ Containers(PreviousResponse(k)[1]) # <<>>
            /\ seen.calls[k].id = Containers(PreviousResponse(k)[1])[1].id
  /\ (full_scan /\ RootListed /\ TraversalOver /\ BudgetLeft) => EveryContainerBrowsed

\* a sample run that went three levels down: the first response listed two
\* containers and the third one still listed a container
C17_Witness ==
  /\ ~full_scan
  /\ TraversalOver
  /\ Len(seen.calls) = 3
  /\ seen.calls[1].answer = Exact(<<Music, Music2>>)
  /\ seen.calls[3].answer = Exact(<<Music, Music2>>)

\* a full scan that browsed two containers listed by one response
C17_FullScanReached ==
  /\ full_scan
  /\ TraversalOver
  /\ BudgetLeft
  /\ \E k \in 1..Len(seen.calls) : seen.calls[k].depth = 2

\* ========================================================================
\* ConcurrentSpec: _test_concurrent_access, one step per request
\* ========================================================================
MaxTracks == 6

TrackUrl(k) ==
  <<"/media/1.mp3", "/media/2.mp3", "/media/3.mp3", "/media/4.mp3",
    "/media/5.mp3", "/media/6.mp3", "/media/7.mp3", "/media/8.mp3">>[k]

\* a media item whose first resource has the URL url
Track(id, url) == parse_didl_item(ItemElem(id, url), FALSE)

Tracks(n) == [k \in 1..n |-> Track("T", TrackUrl(k))]

NoUrlTrack == Track("E", "")

\* the media items handed to _test_concurrent_access: tracks with distinct
\* URLs, two tracks behind ten items without a URL, tracks sharing a URL,
\* a track with a malformed URL
MediaLists ==
  {Tracks(n) : n \in 0..MaxTracks}
  \cup {<<NoUrlTrack>> \o Tracks(2), [k \in 1..10 |-> NoUrlTrack] \o Tracks(2),
        <<Track("A", TrackUrl(1)), Track("B", TrackUrl(1))>>,
        <<Track("A", TrackUrl(1)), Track("B", TrackUrl(1)), Track("C", TrackUrl(2))>>,
        Tracks(1) \o <<Track("3", "//[")>>}

FetchAnswers == {"206", "404", "error"}

\* the mean of the elapsed times, as the clock has it
AvgTimes == {0, 1}

ConcurrentInit ==
  \E ms \in MediaLists :
    UnitSetup("concurrent_access", None, None, [media_items |-> ms])

\* _test_concurrent_access up to the submission of the requests
TestConcurrentAccess ==
  /\ pc = "concurrent_access"
  /\ LET test_urls == FirstUrls(Prefix(seen.media_items, 10))
         urls_to_test == Prefix(test_urls, 5)
     IN IF FirstMalformed(test_urls, 1) # 0
        THEN /\ pc' = "raised"
             /\ UNCHANGED <<results, futures>>
        ELSE IF Len(test_urls) < 2
        THEN /\ results' = Append(results, ConcurrentSkip)
             /\ pc' = "concurrent_done"
             /\ UNCHANGED futures
        ELSE /\ futures' = [k \in 1..Len(urls_to_test) |->
                              [url |-> make_url(urls_to_test[k]).url,
                               done |-> FALSE, result |-> None]]
             /\ pc' = "as_completed"
             /\ UNCHANGED results
  /\ UNCHANGED <<config_vars, score_vars, seen, tester_vars, browsed_items, stack,
                 last_extend, requests, deviations, fetched>>

\* one request runs to its end, in its own thread, and as_completed hands
\* its future to the loop: results.append(future.result())
FetchPartial ==
  /\ pc = "as_completed"
  /\ \E k \in 1..Len(futures), a \in FetchAnswers :
       /\ ~futures[k].done
       /\ futures' = [futures EXCEPT ![k].done = TRUE,
                                     ![k].result = Some(fetch_partial(a))]
       /\ fetched' = Append(fetched, fetch_partial(a))
       /\ requests' = Append(requests,
                             Req(MEDIA_RESOURCES, "GET range", futures[k].url))
  /\ UNCHANGED <<config_vars, score_vars, seen, tester_vars, browsed_items, stack,
                 last_extend, results, deviations, pc>>

\* every future has completed: the executor is left and the result recorded
AnalyzeResults ==
  /\ pc = "as_completed"
  /\ \A k \in 1..Len(futures) : futures[k].done
  /\ \E avg_time \in AvgTimes :
       results' = Append(results,
                         concurrent_access_result(Len(futures), fetched, avg_time))
  /\ pc' = "concurrent_done"
  /\ UNCHANGED <<config_vars, score_vars, seen, tester_vars, browsed_items, stack,
                 last_extend, requests, deviations, pool_vars>>

ConcurrentNext == TestConcurrentAccess \/ FetchPartial \/ AnalyzeResults

ConcurrentSpec == ConcurrentInit /\ [][ConcurrentNext]_vars

ConcurrentResults == Named(results, "Concurrent Access")

\* the requests that succeeded, whatever the order of their completion
Succeeded == {k \in 1..Len(futures) : futures[k].done /\ futures[k].result[1].success}

AvailableUrls == FirstUrls(Prefix(seen.media_items, 10))

Min(a, b) == IF a < b THEN a ELSE b

DistinctUrls == {AvailableUrls[k] : k \in 1..Len(AvailableUrls)}

C19_DistinctUrls ==
  /\ Len(futures) <= 5
  /\ \A j, k \in 1..Len(futures) : j # k => futures[j].url # futures[k].url
  /\ (pc \in {"as_completed", "concurrent_done"} /\ Cardinality(DistinctUrls) < 2) =>
       /\ futures = <<>>
       /\ requests = <<>>
       /\ pc = "concurrent_done" => ConcurrentResults = <<ConcurrentSkip>>

\* ------------------------------------------------------------------------
\* C20 - Description discovery order: discover_device_description probes
\* the fixed list of paths in order and returns the URL of the first path
\* whose GET answers 200 with a body that contains
\* 'urn:schemas-upnp-org:device'; a path whose GET raises or does not
\* qualify is passed over; no path after the accepted one is probed; None
\* is returned exactly when no path qualifies.
\* ------------------------------------------------------------------------
\* the paths whose GET answers 200 with the marker in the body
Qualifying == {i \in 1..Len(common_paths) : seen.discovery[i] = "device"}

FirstQualifying == CHOOSE i \in Qualifying : \A j \in Qualifying : i <= j

ProbedPaths == [i \in 1..Len(requests) |-> requests[i].arg]

C20_DiscoveryOrder ==
  pc = "discovered" =>
    /\ (seen.returned[1] = None) = (Qualifying = {})
    /\ Qualifying = {} =>
         /\ ProbedPaths = common_paths
         /\ device_description_url = None
    /\ Qualifying # {} =>
         /\ seen.returned[1] = Some(<<BaseUrl, common_paths[FirstQualifying]>>)
         /\ device_description_url = seen.returned[1]
         /\ ProbedPaths = SubSeq(common_paths, 1, FirstQualifying)

\* the second path raised, the fourth was accepted, the sixth, which
\* qualifies as well, was never probed
C20_Witness ==
  /\ pc = "discovered"
  /\ seen.discovery[2] = "error"
  /\ seen.discovery[4] = "device"
  /\ seen.discovery[6] = "device"
  /\ Len(requests) = 4
  /\ seen.returned[1] = Some(<<BaseUrl, "/device.xml">>)

\* ========================================================================
\* RepeatSpec: run_all_tests called twice on the same TestSuite
\* ========================================================================
\* the servers that answer a request the same way every time it is sent
SteadyServers == {"none", "down", "cyclic"}

RepeatInit ==
  \E kind \in SteadyServers, fs \in BOOLEAN,
     max \in (0..MaxBudget) \cup {DEFAULT_MAX_ITEMS} :
    Setup(kind, fs, max)

\* the caller keeps the results of the run and calls run_all_tests again
RunAgain ==
  /\ pc = "done"
  /\ prev_results = <<>>
  /\ prev_results' = results
  /\ pc' = "run_all_tests"
  /\ UNCHANGED <<pool_vars, config_vars, change, seen, tester_vars, browsed_items,
                 stack, last_extend, requests, deviations, results>>

RepeatNext == Next \/ RunAgain

RepeatSpec == RepeatInit /\ [][RepeatNext]_vars

SecondRun == prev_results # <<>>

\* ------------------------------------------------------------------------
\* C21 - Category order: run_all_tests clears the result list, then runs
\* the eight categories in the order Connectivity, Device Description,
\* Content Directory, Connection Manager, Browsing, Metadata, Media
\* Resources, Protocol Compliance; during the run the result list only
\* grows by appends, and no result of an earlier category comes after a
\* result of a later category.
\* ------------------------------------------------------------------------
CategoryOrder ==
  <<CONNECTIVITY, DEVICE_DESCRIPTION, CONTENT_DIRECTORY, CONNECTION_MANAGER,
    BROWSING, METADATA, MEDIA_RESOURCES, PROTOCOL_COMPLIANCE>>

Position(category) == CHOOSE i \in 1..Len(CategoryOrder) : CategoryOrder[i] = category

\* the category that runs at a position of the control flow, 9 after the last
Running(at) ==
  CASE at = "connectivity" -> 1
    [] at = "device_description" -> 2
    [] at = "content_directory" -> 3
    [] at = "connection_manager" -> 4
    [] at \in {"browsing", "traversal"} -> 5
    [] at = "metadata" -> 6
    [] at = "media_resources" -> 7
    [] at = "protocol_compliance" -> 8
    [] OTHER -> 9

C21_InOrder ==
  \A i, j \in 1..Len(results) :
    i < j => Position(results[i].category) <= Position(results[j].category)

C21_Step ==
  IF pc = "run_all_tests" THEN results' = <<>> /\ pc' = "connectivity"
  ELSE IF pc = "done" THEN results' = results
  ELSE /\ Len(results') >= Len(results)
       /\ SubSeq(results', 1, Len(results)) = results
       /\ \A i \in (Len(results) + 1)..Len(results') :
            Position(results'[i].category) = Running(pc)
       /\ \/ pc' = "raised"
          \/ Running(pc') = Running(pc) + 1
          \/ pc = "browsing" /\ pc' = "traversal"
          \/ pc = "traversal" /\ pc' = "traversal"

C21_CategoryOrder == []C21_InOrder /\ [][C21_Step]_vars

\* the second run has come to its end: the results of the first run were
\* cleared and all eight categories recorded results again
C21_Witness ==
  /\ SecondRun
  /\ pc = "done"
  /\ \A c \in TestCategory : \E i \in 1..Len(results) : results[i].category = c
  /\ Len(results) <= Len(prev_results)

\* ------------------------------------------------------------------------
\* C22 - Degrade to SKIP: with no ContentDirectory service cached, the
\* Content Directory and the Browsing category each record exactly one
\* SKIP and send no SOAP request; with no ConnectionManager cached,
\* Connection Manager records exactly one SKIP; when the traversal
\* collected no item, Metadata and Media Resources each record exactly one
\* SKIP; in all these cases the remaining categories still run.
\* ------------------------------------------------------------------------
OfCategory(rs, category) == SelectSeq(rs, LAMBDA r : r.category = category)

OneSkip(category) ==
  /\ Len(OfCategory(results, category)) = 1
  /\ OfCategory(results, category)[1].status = "SKIP"

NoRequest(category) == OfCategory(requests, category) = <<>>

\* the run went through its eight categories: a category that runs may
\* record nothing, a run that raised has left the later ones out
AllCategoriesRan == pc = "done"

C22_DegradeToSkip ==
  Finished =>
    /\ content_directory = None =>
         /\ OneSkip(CONTENT_DIRECTORY) /\ NoRequest(CONTENT_DIRECTORY)
         /\ OneSkip(BROWSING) /\ NoRequest(BROWSING)
         /\ AllCategoriesRan
    /\ connection_manager = None =>
         /\ OneSkip(CONNECTION_MANAGER) /\ NoRequest(CONNECTION_MANAGER)
         /\ AllCategoriesRan
    /\ browsed_items = <<>> =>
         /\ OneSkip(METADATA)
         /\ OneSkip(MEDIA_RESOURCES) /\ NoRequest(MEDIA_RESOURCES)
         /\ AllCategoriesRan

\* ------------------------------------------------------------------------
\* C23 - Service caching: after a successful fetch_device_description at
\* most one ContentDirectory and at most one ConnectionManager reference
\* are cached, and when the device advertises several services whose
\* serviceType contains 'ContentDirectory' (respectively
\* 'ConnectionManager'), the cached reference is the last such service in
\* document order.
\* ------------------------------------------------------------------------
Fetched == pc = "described" /\ seen.description.kind = "ok"

Advertised == seen.description.device.services

LastOf(s) == s[Len(s)]

NamingContentDirectory ==
  SelectSeq(Advertised, LAMBDA svc : ContainsContentDirectory(svc.service_type))

NamingConnectionManager ==
  SelectSeq(Advertised, LAMBDA svc : ContainsConnectionManager(svc.service_type))

C23_LastServiceCached ==
  Fetched =>
    /\ Len(content_directory) <= 1
    /\ Len(connection_manager) <= 1
    /\ NamingContentDirectory # <<>> =>
         content_directory = Some(LastOf(NamingContentDirectory))
    /\ NamingConnectionManager # <<>> =>
         connection_manager = Some(LastOf(NamingConnectionManager))

\* C23 as the code has it: a service whose type names ContentDirectory is
\* never taken for a ConnectionManager (the elif of the caching loop), and
\* nothing is cached for a kind the device does not advertise
OnlyConnectionManager ==
  SelectSeq(Advertised, LAMBDA svc : /\ ContainsConnectionManager(svc.service_type)
                                     /\ ~ContainsContentDirectory(svc.service_type))

C23_LastServiceCachedElif ==
  Fetched =>
    /\ Len(content_directory) <= 1
    /\ Len(connection_manager) <= 1
    /\ content_directory =
         IF NamingContentDirectory = <<>> THEN None
         ELSE Some(LastOf(NamingContentDirectory))
    /\ connection_manager =
         IF OnlyConnectionManager = <<>> THEN None
         ELSE Some(LastOf(OnlyConnectionManager))

\* two ConnectionManager services followed by a service whose type names
\* both: the second ConnectionManager and the last service are cached
C23_Witness ==
  /\ Fetched
  /\ Len(Advertised) = 3
  /\ Advertised[1] = CmService
  /\ Advertised[2].service_type = CM_TYPE
  /\ Advertised[2] # CmService
  /\ Advertised[3].service_type = BOTH_TYPE
  /\ connection_manager = Some(Advertised[2])
  /\ content_directory = Some(Advertised[3])

\* ------------------------------------------------------------------------
\* C24 - UPnP class format: whenever at least one collected item has a
\* non-empty class, the Metadata category records a 'UPnP Class Format'
\* result, PASS if every distinct class starts with 'object.' and WARN in
\* every other case.
\* ------------------------------------------------------------------------
CollectedClasses ==
  {browsed_items[i].item_class : i \in 1..Len(browsed_items)} \ {""}

ClassFormatResults == Named(results, "UPnP Class Format")

C24_ClassFormat ==
  (pc = "media_resources" /\ CollectedClasses # {}) =>
    /\ Len(ClassFormatResults) = 1
    /\ ClassFormatResults[1].status =
         IF \A c \in CollectedClasses : StartsWithObject(c) THEN "PASS" ELSE "WARN"

\* ------------------------------------------------------------------------
\* C25 - Budget stop: in full-scan mode, from the moment the number of
\* collected items is at least max_items, the traversal issues no further
\* Browse call, at whatever depth of the recursion the budget was reached;
\* the 'Full Scan Complete' result then reports the counts actually
\* collected and is PASS.
\* ------------------------------------------------------------------------
FullScanResults == Named(results, "Full Scan Complete")

RootContainers == Containers(Listed(seen.root[1])[1])

\* the counts of the collection as it stands
ActualCounts ==
  <<Len(browsed_items),
    Number(browsed_items, LAMBDA i : i.is_container),
    Number(browsed_items, LAMBDA i : ~i.is_container)>>

\* the number of items collected when the k-th call of the traversal was made
CollectedBefore(k) ==
  Len(Listed(seen.root[1])[1])
  + Len(Responses(SelectSeq(SubSeq(seen.calls, 1, k - 1),
                            LAMBDA c : Listed(c.answer) # None)))

C25_NoCallOnceReached ==
  (full_scan /\ ~BudgetLeft) =>
    /\ seen'.calls = seen.calls
    /\ TraversalCalls' = TraversalCalls

C25_Reported ==
  /\ (full_scan /\ RootListed) =>
       \A k \in 1..Len(seen.calls) : CollectedBefore(k) < max_items
  /\ (full_scan /\ TraversalOver /\ RootListed /\ RootContainers # <<>> /\ ~BudgetLeft) =>
       /\ Len(FullScanResults) = 1
       /\ FullScanResults[1].status = "PASS"
       /\ FullScanResults[1].details = ActualCounts

C25_BudgetStop == []C25_Reported /\ [][C25_NoCallOnceReached]_vars

\* a scan with a budget of 3 reached it at depth 2, left a listed container
\* unbrowsed and reported the 4 items it had collected
C25_Witness ==
  /\ full_scan
  /\ max_items = 3
  /\ TraversalOver
  /\ RootListed
  /\ Len(seen.calls) >= 2
  /\ seen.calls[Len(seen.calls)].depth >= 2
  /\ CollectedBefore(Len(seen.calls)) < 3
  /\ Len(browsed_items) = 4
  /\ ~EveryContainerBrowsed
  /\ Len(FullScanResults) = 1
  /\ FullScanResults[1].details[1] = 4

\* ------------------------------------------------------------------------
\* C26 - No false offset failure: for a server that honours StartingIndex
\* (the Browse at StartingIndex=1 returns the object at position 1 of the
\* root listing, all object ids distinct and non-empty), 'StartingIndex
\* Offset' is never FAIL, whatever the mix and document order of containers
\* and items in the root listing.
\* ------------------------------------------------------------------------
DistinctIds(doc) ==
  \A i, j \in 1..Len(doc) : doc[i].id # "" /\ (i # j => doc[i].id # doc[j].id)

\* the root listing and the answer to the Browse at StartingIndex=1 are
\* those of a server that honours the index
OffsetHonoured ==
  /\ seen.root # None
  /\ seen.offset # None
  /\ seen.root[1].kind = "body"
  /\ seen.root[1].result.kind = "didl"
  /\ LET doc == seen.root[1].result.doc IN
     /\ Len(doc) >= 2
     /\ DistinctIds(doc)
     /\ seen.offset[1] = Listing(<<doc[2]>>, Num(1), seen.root[1].tm)

StartingIndexResults == Named(results, "StartingIndex Offset")

C26_NoFalseOffsetFail ==
  OffsetHonoured =>
    \A k \in 1..Len(StartingIndexResults) : StartingIndexResults[k].status # "FAIL"

\* ------------------------------------------------------------------------
\* C27 - Single navigation verdict: in sample mode, whenever the root
\* Browse succeeds, the run records exactly one 'Container Navigation'
\* result: WARN if the root has no container, otherwise PASS or FAIL for
\* the sampled chain, never both and never none, for every max_items and
\* every pattern of Browse successes and failures at depths 1 to 3.
\* ------------------------------------------------------------------------
NavigationResults == Named(results, "Container Navigation")

C27_SingleNavigationVerdict ==
  (~full_scan /\ TraversalOver /\ RootListed) =>
    /\ Len(NavigationResults) = 1
    /\ NavigationResults[1].status =
         IF RootContainers = <<>> THEN "WARN"
         ELSE IF Listed(seen.calls[1].answer) # None THEN "PASS" ELSE "FAIL"

\* ------------------------------------------------------------------------
\* C28 - Repeatable runs: calling run_all_tests twice on the same TestSuite
\* against a server that answers every request identically both times
\* yields the same sequence of results (names, statuses, weights, reported
\* counts) and the same score; no state of the first run changes the
\* outcome of the second.
\* ------------------------------------------------------------------------
C28_RepeatableRuns ==
  (SecondRun /\ pc = "done") =>
    /\ results = prev_results
    /\ get_score(results) = get_score(prev_results)

\* ------------------------------------------------------------------------
\* C29 - Verdict and message agree: every 'Error Handling' result with
\* status PASS carries the message 'Server handles invalid requests
\* gracefully' and every one with status WARN carries 'Server may not
\* handle invalid requests gracefully', for every response of the server,
\* a SOAP Body element without child elements included.
\* ------------------------------------------------------------------------
C29_VerdictAndMessageAgree ==
  pc = "probed" =>
    \A k \in 1..Len(ErrorHandlingResults) :
      LET r == ErrorHandlingResults[k] IN
      /\ r.status = "PASS" => r.message = "Server handles invalid requests gracefully"
      /\ r.status = "WARN" => r.message = "Server may not handle invalid requests gracefully"

\* ------------------------------------------------------------------------
\* C30 - Score and summary invariants: after any run, every recorded result
\* has a weight in {0.5, 1.0, 1.5, 2.0}, 0 <= total score <= max score, and
\* in get_summary passed + failed + warned + skipped = total = the sum of
\* all per-category counts.
\* ------------------------------------------------------------------------
\* the sum of the values of the function f over the set S
RECURSIVE SumOver(_, _)
SumOver(f, S) ==
  IF S = {} THEN 0
  ELSE LET x == CHOOSE y \in S : TRUE IN f[x] + SumOver(f, S \ {x})

CategoryCounts(bc) ==
  SumOver([c \in DOMAIN bc |-> SumOver(bc[c], TestStatus)], DOMAIN bc)

C30_ScoreAndSummary ==
  Finished =>
    LET sc == get_score(results)
        sm == get_summary(results)
    IN /\ \A k \in 1..Len(results) : results[k].weight \in Weights
       /\ 0 <= sc.score
       /\ sc.score <= sc.max_score
       /\ sm.passed + sm.failed + sm.warned + sm.skipped = sm.total
       /\ sm.total = Len(results)
       /\ sm.total = CategoryCounts(sm.by_category)

\* a run came to its end with results of every status and of every weight,
\* in all eight categories
C30_Witness ==
  /\ pc = "done"
  /\ {results[k].status : k \in 1..Len(results)} = TestStatus
  /\ {results[k].weight : k \in 1..Len(results)} = Weights
  /\ DOMAIN get_summary(results).by_category = TestCategory
  /\ get_summary(results).skipped >= 1

====
